---- MODULE Spec2Model ----
(***************************************************************************)
(* Model of the WSL2 socket server (scripts/wsl2_socket_server.py): the    *)
(* stream framer, the frame validator, the CAN-bus sink, and the fan-out   *)
(* publisher with its bounded backup queue, driven by one handler thread   *)
(* per accepted connection.                                                *)
(*                                                                         *)
(* Text is a sequence of one-character strings.  A JSON document is        *)
(* abstracted to tokens: "{" and "}" delimit an object and every character *)
(* between them stands for one member ("i" for "can_id": 256, and so on,   *)
(* see FieldKey/FieldValue); "7" is the JSON number 7.                     *)
(***************************************************************************)
EXTENDS Integers, Sequences, FiniteSets, TLC

(* ------------------------------ bounds -------------------------------- *)
\* Number of client connections that may be accepted.
NumConns == 2
\* Capacity of the backup queue in the runs with concurrent handlers (the
\* program constructs the queue with maxsize=1000, out of reach of the runs).
QueueCap == 1
\* Number of lines the clients of the concurrent runs send altogether.
MaxMsgs == 3
\* Capacity of the backup queue in the runs with one handler.
SeqCap == 3
\* Number of lines the client of the runs with one handler sends.
MaxSeqMsgs == 5
\* Number of lines the client of the framing runs sends at most.
MaxFramerLines == 2

Conns == 1..NumConns

(* ------------------------------ bytes and text ------------------------ *)
NL == "\n"
\* The two bytes of the UTF-8 encoding of U+00E9, and the decoded character.
B_C3 == "C3"
B_A9 == "A9"
U_E9 == "U+00E9"

\* str.isspace for the characters of the model.
IsSpace(ch) == ch \in {" ", "\t", "\r", NL}

\* bytes.decode('utf-8', errors='ignore'): a complete two-byte sequence is one
\* character, a lead byte without its continuation byte and a continuation
\* byte without its lead byte are dropped, an ASCII byte is itself.
RECURSIVE decode(_)
decode(bs) ==
    IF bs = <<>> THEN <<>>
    ELSE IF Head(bs) = B_C3
         THEN IF Len(bs) >= 2 /\ bs[2] = B_A9
              THEN <<U_E9>> \o decode(SubSeq(bs, 3, Len(bs)))
              ELSE decode(Tail(bs))
         ELSE IF Head(bs) = B_A9
              THEN decode(Tail(bs))
              ELSE <<Head(bs)>> \o decode(Tail(bs))

\* str.encode('utf-8') of a text of the model.
RECURSIVE encode_utf8(_)
encode_utf8(s) ==
    IF s = <<>> THEN <<>>
    ELSE (IF Head(s) = U_E9 THEN <<B_C3, B_A9>> ELSE <<Head(s)>>)
         \o encode_utf8(Tail(s))

RECURSIVE lstrip(_)
lstrip(s) == IF s # <<>> /\ IsSpace(Head(s)) THEN lstrip(Tail(s)) ELSE s

RECURSIVE rstrip(_)
rstrip(s) ==
    IF s # <<>> /\ IsSpace(s[Len(s)]) THEN rstrip(SubSeq(s, 1, Len(s) - 1)) ELSE s

\* str.strip()
strip(s) == rstrip(lstrip(s))

HasNL(s) == \E i \in 1..Len(s) : s[i] = NL

\* Index of the first newline of a text that has one.
FirstNL(s) == CHOOSE i \in 1..Len(s) : s[i] = NL /\ \A j \in 1..(i - 1) : s[j] # NL

\* A framer that keeps the white space around a segment.
no_strip(message) == message
\* message = message.strip()
clean_message(message) == strip(message)

\* process_buffer: while '\n' in buffer: split off the first segment, strip it,
\* keep it when it is not empty.
RECURSIVE process_buffer_loop(_, _)
process_buffer_loop(messages, buffer) ==
    IF HasNL(buffer)
    THEN LET i == FirstNL(buffer)
             message == clean_message(SubSeq(buffer, 1, i - 1))
             rest == SubSeq(buffer, i + 1, Len(buffer))
         IN process_buffer_loop(
                IF message # <<>> THEN Append(messages, message) ELSE messages,
                rest)
    ELSE [messages |-> messages, remaining_buffer |-> buffer]

\* A framer that puts each message in front of the earlier ones.
process_buffer_reversed(buffer) ==
    LET r == process_buffer_loop(<<>>, buffer)
        n == Len(r.messages)
    IN [messages |-> [k \in 1..n |-> r.messages[n + 1 - k]],
        remaining_buffer |-> r.remaining_buffer]

process_buffer(buffer) == process_buffer_loop(<<>>, buffer)

(* ------------------------------ JSON values --------------------------- *)
\* A JSON value of a member: absent, an integer n, a string or a list l.
JAbsent == [t |-> "absent", n |-> 0, l |-> <<>>]
JInt(n) == [t |-> "int", n |-> n, l |-> <<>>]
JStr(l) == [t |-> "str", n |-> 0, l |-> l]
JList(l) == [t |-> "list", n |-> 0, l |-> l]

EmptyObject == [can_id |-> JAbsent, dlc |-> JAbsent, can_data |-> JAbsent,
                schemaTag |-> JAbsent, source |-> JAbsent]

Payload8 == <<1, 50, 60, 0, 0, 0, 0, 0>>
Payload7 == <<1, 50, 60, 0, 0, 0, 0>>
Payload9 == <<1, 50, 60, 0, 0, 0, 0, 0, 0>>
\* Eight elements, the first of which is no byte: bytes() raises on it.
PayloadBig == <<256, 50, 60, 0, 0, 0, 0, 0>>

\* The member each token stands for.
FieldChars == {"i", "j", "I", "s", "d", "D", "p", "P", "q", "S", U_E9}
FieldKey(ch) ==
    CASE ch \in {"i", "j", "I", "s"} -> "can_id"
      [] ch \in {"d", "D"}      -> "dlc"
      [] ch \in {"p", "P", "q"} -> "can_data"
      [] ch = "S"               -> "source"
      [] OTHER                  -> "schemaTag"
FieldValue(ch) ==
    CASE ch = "i" -> JInt(256)
      [] ch = "j" -> JInt(257)
      [] ch = "I" -> JInt(2048)
      [] ch = "s" -> JStr(<<"x">>)
      [] ch = "d" -> JInt(8)
      [] ch = "D" -> JInt(9)
      [] ch = "p" -> JList(Payload8)
      [] ch = "P" -> JList(Payload7)
      [] ch = "q" -> JList(PayloadBig)
      [] ch = "S" -> JStr(<<"autoLamp_fmu">>)
      [] OTHER    -> JStr(<<U_E9>>)

RECURSIVE ParseMembers(_, _)
ParseMembers(obj, body) ==
    IF body = <<>> THEN obj
    ELSE ParseMembers([obj EXCEPT ![FieldKey(Head(body))] = FieldValue(Head(body))],
                      Tail(body))

\* json.loads: an object, the number 7, or JSONDecodeError.
IsObjectText(s) ==
    /\ Len(s) >= 2
    /\ s[1] = "{"
    /\ s[Len(s)] = "}"
    /\ \A i \in 2..(Len(s) - 1) : s[i] \in FieldChars

json_loads(s) ==
    IF IsObjectText(s)
    THEN [kind |-> "object", obj |-> ParseMembers(EmptyObject, SubSeq(s, 2, Len(s) - 1))]
    ELSE IF s = <<"7">>
         THEN [kind |-> "number", obj |-> EmptyObject]
         ELSE [kind |-> "JSONDecodeError", obj |-> EmptyObject]

(* ------------------------------ validator ----------------------------- *)
\* "a <= x <= b" on a JSON value: a comparison of a str or a list with an int
\* raises TypeError.
Comparable(v) == v.t = "int"
\* len(x) raises TypeError on an int.
HasLen(v) == v.t \in {"str", "list"}

\* A validator without any rule.
validate_accept_all(data) == [ret |-> "True", counter |-> "none"]
\* A validator without the rule on the declared length.
validate_no_dlc_rule(data) ==
    IF data.can_id.t = "absent" \/ data.can_data.t = "absent" \/ data.dlc.t = "absent"
    THEN [ret |-> "False", counter |-> "none"]
    ELSE IF ~Comparable(data.can_id)
    THEN [ret |-> "raise", counter |-> "none"]
    ELSE IF ~(0 <= data.can_id.n /\ data.can_id.n <= 2047)
    THEN [ret |-> "False", counter |-> "invalid_ids"]
    ELSE IF ~HasLen(data.can_data)
    THEN [ret |-> "raise", counter |-> "none"]
    ELSE IF Len(data.can_data.l) # 8
    THEN [ret |-> "False", counter |-> "invalid_data"]
    ELSE [ret |-> "True", counter |-> "none"]
\* A validator that tests the payload length before the identifier.
validate_data_first(data) ==
    IF data.can_id.t = "absent" \/ data.can_data.t = "absent" \/ data.dlc.t = "absent"
    THEN [ret |-> "False", counter |-> "none"]
    ELSE IF ~HasLen(data.can_data)
    THEN [ret |-> "raise", counter |-> "none"]
    ELSE IF Len(data.can_data.l) # 8
    THEN [ret |-> "False", counter |-> "invalid_data"]
    ELSE IF ~Comparable(data.can_id)
    THEN [ret |-> "raise", counter |-> "none"]
    ELSE IF ~(0 <= data.can_id.n /\ data.can_id.n <= 2047)
    THEN [ret |-> "False", counter |-> "invalid_ids"]
    ELSE IF ~Comparable(data.dlc)
    THEN [ret |-> "raise", counter |-> "none"]
    ELSE IF ~(0 <= data.dlc.n /\ data.dlc.n <= 8)
    THEN [ret |-> "False", counter |-> "none"]
    ELSE [ret |-> "True", counter |-> "none"]
\* validate_message on a parsed object: ret is "True", "False" or "raise" (an
\* exception leaves the function), counter the statistics key it increments.
validate_message(data) ==
    IF data.can_id.t = "absent" \/ data.can_data.t = "absent" \/ data.dlc.t = "absent"
    THEN [ret |-> "False", counter |-> "none"]
    ELSE IF ~Comparable(data.can_id)
    THEN [ret |-> "raise", counter |-> "none"]
    ELSE IF ~(0 <= data.can_id.n /\ data.can_id.n <= 2047)
    THEN [ret |-> "False", counter |-> "invalid_ids"]
    ELSE IF ~Comparable(data.dlc)
    THEN [ret |-> "raise", counter |-> "none"]
    ELSE IF ~(0 <= data.dlc.n /\ data.dlc.n <= 8)
    THEN [ret |-> "False", counter |-> "none"]
    ELSE IF ~HasLen(data.can_data)
    THEN [ret |-> "raise", counter |-> "none"]
    ELSE IF Len(data.can_data.l) # 8
    THEN [ret |-> "False", counter |-> "invalid_data"]
    ELSE [ret |-> "True", counter |-> "none"]

\* The processor statistics after validate_message.
CountValidation(ps, v) ==
    IF v.counter = "invalid_ids" THEN [ps EXCEPT !.invalid_ids = @ + 1]
    ELSE IF v.counter = "invalid_data" THEN [ps EXCEPT !.invalid_data = @ + 1]
    ELSE ps

(* ------------------------------ sinks --------------------------------- *)
\* A queue that accepts one item more than maxsize.
QueueFullOffByOne(q, cap) == Len(q) > cap
\* queue.Queue: put_nowait raises Full when the queue holds maxsize items.
\* Each call on the queue is atomic (the queue's mutex).
QueueFull(q, cap) == Len(q) >= cap
\* A queue whose get removes the newest item.
get_newest(q) == SubSeq(q, 1, Len(q) - 1)
\* queue.Queue: get_nowait removes the oldest item.
get_nowait(q) == Tail(q)

\* The slice l[:n] of a list.
SliceTo(l, n) ==
    IF n >= 0
    THEN SubSeq(l, 1, IF n < Len(l) THEN n ELSE Len(l))
    ELSE SubSeq(l, 1, IF Len(l) + n > 0 THEN Len(l) + n ELSE 0)

\* bytes(can_data[:dlc]) and can.Message(...) of send_to_can_bus.
CanMessage(frame) ==
    [arbitration_id |-> frame.can_id.n,
     data |-> SliceTo(frame.can_data.l, frame.dlc.n),
     dlc |-> frame.dlc.n]

(* ------------------------------ client streams ------------------------ *)
\* A message as the client sends it: its UTF-8 bytes and a newline.
Line(text) == encode_utf8(text) \o <<NL>>

MsgValid == <<"{", "i", "d", "p", "}">>
MsgBadDlc == <<"{", "i", "D", "p", "}">>
MsgBlank == <<" ">>
MsgEmpty == <<>>

\* The byte streams made of n lines drawn from msgs.
RECURSIVE StreamsOf(_, _)
StreamsOf(msgs, n) ==
    IF n = 0 THEN {<<>>}
    ELSE {s \o Line(m) : s \in StreamsOf(msgs, n - 1), m \in msgs}

(* ------------------------------ state --------------------------------- *)
VARIABLES
    mainpc,            \* the accept thread: "init", "accept", "stopped"
    running,           \* self.running
    client_connected,  \* self.client_connected (one flag for the whole server)
    publisher_closed,  \* forwarder.publisher.close() has run
    can_shutdown,      \* can_bus.shutdown() has run
    stats,             \* EnhancedWSL2SocketServer.stats
    pstats,            \* CANMessageProcessor.stats
    clock,             \* time.time_ns(), as a logical clock
    message_queue,     \* CANForwarder.message_queue
    queue_maxsize,     \* CANForwarder.message_queue.maxsize
    published,         \* the messages sent on the ZMQ publisher, in order
    can_sent,          \* the messages sent on the CAN bus, in order
    pc,                \* per connection: the handler thread's position
    exit,              \* per connection: how the handler left its read loop
    sent,              \* per connection: the bytes the client sends in the run
    wire,              \* per connection: the bytes of sent not yet read
    buffer,            \* per connection: handle_client's local "buffer"
    pending,           \* per connection: messages left in the for loop
    cur,               \* per connection: forward_message's argument
    arg,               \* the envelope of a direct validate_message call
    ret,               \* what that call returned
    \* fmu_can_bridge.py: the source side (FMUCANBridge and WSL2SocketBridge)
    bpc,               \* the coordinator's position in main/run_simulation
    brunning,          \* FMUCANBridge.running
    fmu_loaded,        \* FMUSimulator.fmu is set
    has_socket,        \* WSL2SocketBridge.socket is set
    connected,         \* WSL2SocketBridge.connected
    reconnect_attempts, \* WSL2SocketBridge.reconnect_attempts
    connects,          \* the number of calls of socket.connect
    send_ret,          \* what the last send_data returned, how its write ended
    bstats,            \* FMUCANBridge.stats and the frames encoded and offered
    ticks,             \* the iterations of the run loop begun
    \* the encoder of fmu_can_bridge.py and the decoders of the zonal controllers
    fmu_data,          \* the signal values given to encode
    can_frame,         \* the frame encode returned, or the frame received
    decoded,           \* what a decoder made of the frame
    \* the loops of the other processes
    launched,          \* the process this run follows, "none" when it is given by the specification
    kpc,               \* KuksaCANBridge.run_with_kuksa: its position
    sub_pc,            \* SimpleZonalController.run: its position
    sub_running,       \* SimpleZonalController.running
    zc_pc,             \* ZonalControllerCAN: the position of main
    zc_running,        \* ZonalControllerCAN.running
    rx_pc,             \* can_receiver_thread: its position
    zp_pc,             \* zone_processor: its position
    can_rx_queue,      \* ZonalControllerCAN.can_rx_queue, oldest message first
    can_tx_queue,      \* ZonalControllerCAN.can_tx_queue, oldest message first
    zone_data,         \* ZonalControllerCAN.zone_data
    can_bus_rx,        \* the messages the CAN bus can deliver to the receiver in this run
    \* zonal_controller.py: ZonalController and its components
    dbc,               \* DBCManager: where db came from, its messages, message_cache, the warnings logged
    mappings,          \* VSSMapper.mappings
    store,             \* DatabaseManager: the rows committed
    zonal,             \* ZonalController: its position, its resources, the messages to come, what it did
    \* the server's counters, when "+= 1" is taken apart
    loaded,            \* per connection: the messages_received a handler has read and not yet stored, -1 when none
    \* main
    stops              \* the number of times stop() has run

serverVars == <<mainpc, running, client_connected, publisher_closed, can_shutdown,
                stats, pstats, clock, message_queue, queue_maxsize, published,
                can_sent, pc, exit, sent, wire, buffer, pending, cur, arg, ret>>

bridgeVars == <<bpc, brunning, fmu_loaded, has_socket, connected,
                reconnect_attempts, connects, send_ret, bstats, ticks>>

codecVars == <<fmu_data, can_frame, decoded>>

loopVars == <<launched, kpc, sub_pc, sub_running, zc_pc, zc_running, rx_pc, zp_pc,
              can_rx_queue, can_tx_queue, zone_data, can_bus_rx>>

\* The variables of the processes other than the socket server.
zonalVars == <<dbc, mappings, store, zonal>>

raceVars == <<loaded, stops>>

peerVars == <<bridgeVars, codecVars, loopVars, zonalVars, raceVars>>

\* What a step of the source's coordinator, of the encoder or a decoder, and
\* of the other loops leaves alone.
notBridgeVars == <<serverVars, codecVars, loopVars, zonalVars, raceVars>>
notCodecVars == <<serverVars, bridgeVars, loopVars, zonalVars, raceVars>>
notLoopVars == <<serverVars, bridgeVars, codecVars, zonalVars, raceVars>>
notZonalVars == <<serverVars, bridgeVars, codecVars, loopVars, raceVars>>
notRaceVars == <<bridgeVars, codecVars, loopVars, zonalVars>>

vars == <<serverVars, peerVars>>

NoFrame == [can_id |-> JAbsent, dlc |-> JAbsent, can_data |-> JAbsent,
            schemaTag |-> JAbsent, source |-> JAbsent,
            timestamp_ns |-> 0, validated |-> FALSE]

InitStats == [connections |-> 0, messages_received |-> 0, messages_forwarded |-> 0,
              messages_sent_to_can |-> 0, errors |-> 0, bytes_received |-> 0]

InitPStats == [total_received |-> 0, total_sent |-> 0, invalid_ids |-> 0,
               invalid_data |-> 0, by_id |-> [i \in {} |-> 0]]

\* The state after EnhancedWSL2SocketServer.__init__, with the streams the
\* clients are going to send.
InitServer(streams, cap) ==
    /\ queue_maxsize = cap
    /\ mainpc = "init"
    /\ running = FALSE
    /\ client_connected = FALSE
    /\ publisher_closed = FALSE
    /\ can_shutdown = FALSE
    /\ stats = InitStats
    /\ pstats = InitPStats
    /\ clock = 0
    /\ message_queue = <<>>
    /\ published = <<>>
    /\ can_sent = <<>>
    /\ pc = [c \in Conns |-> "idle"]
    /\ exit = [c \in Conns |-> "none"]
    /\ sent \in streams
    /\ wire = sent
    /\ buffer = [c \in Conns |-> <<>>]
    /\ pending = [c \in Conns |-> <<>>]
    /\ cur = [c \in Conns |-> NoFrame]

(* ------------------------------ accept thread ------------------------ *)
\* start(): bind, listen, running = True, enter the accept loop.
Start ==
    /\ mainpc = "init"
    /\ mainpc' = "accept"
    /\ running' = TRUE
    /\ UNCHANGED <<client_connected, publisher_closed, can_shutdown, stats, pstats,
                   clock, message_queue, queue_maxsize, published, can_sent, pc, exit, wire, sent,
                   buffer, pending, cur, arg, ret>>
    /\ UNCHANGED peerVars

\* One round of the accept loop that accepts client c and starts its thread.
Accept(c) ==
    /\ mainpc = "accept"
    /\ running
    /\ pc[c] = "idle"
    /\ stats' = [stats EXCEPT !.connections = @ + 1]
    /\ pc' = [pc EXCEPT ![c] = "start"]
    /\ UNCHANGED <<mainpc, running, client_connected, publisher_closed, can_shutdown,
                   pstats, clock, message_queue, queue_maxsize, published, can_sent, exit, wire, sent, buffer, pending, cur, arg, ret>>
    /\ UNCHANGED peerVars

\* stop(): the flags are cleared, the listening socket, the CAN bus and the
\* publisher are closed; closing what is closed already changes nothing.
StopRuns ==
    /\ running' = FALSE
    /\ client_connected' = FALSE
    /\ can_shutdown' = TRUE
    /\ publisher_closed' = TRUE
    /\ stops' = stops + 1
    /\ UNCHANGED <<stats, pstats, clock, message_queue, queue_maxsize, published, can_sent, pc, exit,
                   wire, sent, buffer, pending, cur, arg, ret>>
    /\ UNCHANGED <<loaded, notRaceVars>>

\* The accept loop is left (KeyboardInterrupt) and stop() runs in its finally.
Stop ==
    /\ mainpc = "accept"
    /\ mainpc' = "stopped"
    /\ StopRuns

\* start() has returned or raised out of its finally, and main's own finally
\* calls server.stop().
MainFinally ==
    /\ mainpc = "stopped"
    /\ stops = 1
    /\ mainpc' = mainpc
    /\ StopRuns

(* ------------------------------ handle_client ------------------------- *)
\* The finally clause: close the socket, clear the server's flag.
CloseConnection(c, how) ==
    /\ pc' = [pc EXCEPT ![c] = "closed"]
    /\ exit' = [exit EXCEPT ![c] = how]
    /\ client_connected' = FALSE

\* settimeout, buffer = "", self.client_connected = True.
HandleClientStart(c) ==
    /\ pc[c] = "start"
    /\ pc' = [pc EXCEPT ![c] = "loop"]
    /\ buffer' = [buffer EXCEPT ![c] = <<>>]
    /\ client_connected' = TRUE
    /\ UNCHANGED <<mainpc, running, publisher_closed, can_shutdown, stats, pstats,
                   clock, message_queue, queue_maxsize, published, can_sent, exit, wire, sent,
                   pending, cur, arg, ret>>
    /\ UNCHANGED peerVars

\* The test of "while self.running and self.client_connected".
LoopContinues == running /\ client_connected
LoopTest(c) ==
    /\ pc[c] = "loop"
    /\ IF LoopContinues
       THEN /\ pc' = [pc EXCEPT ![c] = "recv"]
            /\ UNCHANGED <<exit, client_connected>>
       ELSE CloseConnection(c, "condition")
    /\ UNCHANGED <<mainpc, running, publisher_closed, can_shutdown, stats, pstats,
                   clock, message_queue, queue_maxsize, published, can_sent, wire, sent, buffer,
                   pending, cur, arg, ret>>
    /\ UNCHANGED peerVars

\* recv returns the next n bytes of the stream; they are decoded, appended to
\* the buffer and the buffer is split into messages and a remainder.
RecvData(c, n) ==
    /\ pc[c] = "recv"
    /\ n \in 1..Len(wire[c])
    /\ LET bytes == SubSeq(wire[c], 1, n)
           processed == process_buffer(buffer[c] \o decode(bytes))
       IN /\ wire' = [wire EXCEPT ![c] = SubSeq(@, n + 1, Len(@))]
          /\ stats' = [stats EXCEPT !.bytes_received = @ + n]
          /\ buffer' = [buffer EXCEPT ![c] = processed.remaining_buffer]
          /\ pending' = [pending EXCEPT ![c] = processed.messages]
          /\ pc' = [pc EXCEPT ![c] = IF processed.messages = <<>> THEN "loop" ELSE "msgs"]
    /\ UNCHANGED <<mainpc, running, client_connected, publisher_closed, can_shutdown,
                   pstats, clock, message_queue, queue_maxsize, published, can_sent, exit, cur, sent, arg, ret>>
    /\ UNCHANGED peerVars

\* recv raises socket.timeout: continue.
RecvTimeout(c) ==
    /\ pc[c] = "recv"
    /\ pc' = [pc EXCEPT ![c] = "loop"]
    /\ UNCHANGED <<mainpc, running, client_connected, publisher_closed, can_shutdown,
                   stats, pstats, clock, message_queue, queue_maxsize, published, can_sent, exit,
                   wire, sent, buffer, pending, cur, arg, ret>>
    /\ UNCHANGED peerVars

\* recv returns b"": the client has sent everything and closed.
RecvEOF(c) ==
    /\ pc[c] = "recv"
    /\ wire[c] = <<>>
    /\ CloseConnection(c, "eof")
    /\ UNCHANGED <<mainpc, running, publisher_closed, can_shutdown, stats, pstats,
                   clock, message_queue, queue_maxsize, published, can_sent, wire, sent, buffer, pending,
                   cur, arg, ret>>
    /\ UNCHANGED peerVars

\* recv raises ConnectionResetError.
RecvReset(c) ==
    /\ pc[c] = "recv"
    /\ CloseConnection(c, "reset")
    /\ UNCHANGED <<mainpc, running, publisher_closed, can_shutdown, stats, pstats,
                   clock, message_queue, queue_maxsize, published, can_sent, wire, sent, buffer,
                   pending, cur, arg, ret>>
    /\ UNCHANGED peerVars

\* recv raises another exception: counted, break.
RecvError(c) ==
    /\ pc[c] = "recv"
    /\ stats' = [stats EXCEPT !.errors = @ + 1]
    /\ CloseConnection(c, "error")
    /\ UNCHANGED <<mainpc, running, publisher_closed, can_shutdown, pstats, clock,
                   message_queue, queue_maxsize, published, can_sent, wire, sent, buffer, pending,
                   cur, arg, ret>>
    /\ UNCHANGED peerVars

(* ------------------------------ process_incoming_message ------------- *)
\* A handler that a rejected message throws out of its connection.
AbandonConnection(c) ==
    /\ pending' = [pending EXCEPT ![c] = <<>>]
    /\ pc' = [pc EXCEPT ![c] = "closed"]
\* The for loop of handle_client moves to the next message, or back to the
\* loop test after the last one.
Advance(c) ==
    /\ pending' = [pending EXCEPT ![c] = Tail(@)]
    /\ pc' = [pc EXCEPT ![c] = IF Len(pending[c]) > 1 THEN "msgs" ELSE "loop"]

\* A handler that does not count the error.
IgnoreJSONDecodeError(st) == st
\* except json.JSONDecodeError: the error is counted.
OnJSONDecodeError(st) == [st EXCEPT !.errors = @ + 1]

\* process_message's enrichment of an accepted envelope: {**data, ...} with
\* the members it sets, of which the model keeps timestamp_ns, source and
\* validated.
Enrich(obj, now) ==
    [can_id |-> obj.can_id, dlc |-> obj.dlc, can_data |-> obj.can_data,
     schemaTag |-> obj.schemaTag, source |-> JStr(<<"vECU">>),
     timestamp_ns |-> now, validated |-> TRUE]

\* stats['by_id'][can_id] += 1, the key created at 0 when missing.
CountById(ps, id) ==
    [ps EXCEPT !.by_id = [i \in DOMAIN @ \cup {id} |->
                             IF i = id
                             THEN (IF i \in DOMAIN @ THEN @[i] ELSE 0) + 1
                             ELSE @[i]]]

\* send_to_can_bus without the count of its failures.
send_to_can_bus_silent(st, on_bus, frame, shut) ==
    IF frame.can_data.t # "list"
           \/ shut
           \/ \E k \in 1..Len(SliceTo(frame.can_data.l, frame.dlc.n)) :
                 ~(frame.can_data.l[k] \in 0..255)
    THEN [stats |-> st, can_sent |-> on_bus]
    ELSE [stats |-> [st EXCEPT !.messages_sent_to_can = @ + 1],
          can_sent |-> Append(on_bus, CanMessage(frame))]

\* send_to_can_bus: the server statistics and the messages on the bus after it.
send_to_can_bus(st, on_bus, frame, shut) ==
    IF frame.can_data.t # "list"
    THEN [stats |-> st, can_sent |-> on_bus]
    ELSE IF \E k \in 1..Len(SliceTo(frame.can_data.l, frame.dlc.n)) :
                ~(frame.can_data.l[k] \in 0..255)
    THEN [stats |-> [st EXCEPT !.errors = @ + 1], can_sent |-> on_bus]
    ELSE IF shut
    THEN [stats |-> [st EXCEPT !.errors = @ + 1], can_sent |-> on_bus]
    ELSE LET n == st.messages_sent_to_can + 1
         IN [stats |-> [st EXCEPT !.messages_sent_to_can = n,
                                  !.errors = IF n % 50 = 0 /\ frame.dlc.n = 0
                                             THEN @ + 1 ELSE @],
             can_sent |-> Append(on_bus, CanMessage(frame))]

\* forward_message has returned: messages_forwarded += 1, next message.
Forwarded(c, st) ==
    /\ stats' = [st EXCEPT !.messages_forwarded = @ + 1]
    /\ Advance(c)

\* One iteration of the for loop: json.loads, process_message (validate, enrich,
\* count), send_to_can_bus, and forward_message up to its first put_nowait:
\* publisher.send_json (a closed publisher raises, which forward_message's
\* outer handler logs) and the put, which raises Full on a full queue.
ProcessIncomingFrom(c, n) ==
    /\ pc[c] = "msgs"
    /\ LET parsed == json_loads(Head(pending[c]))
           received == [stats EXCEPT !.messages_received = n + 1]
           counted == [pstats EXCEPT !.total_received = @ + 1]
           v == validate_message(parsed.obj)
       IN IF parsed.kind = "JSONDecodeError"
          THEN /\ stats' = OnJSONDecodeError(stats)
               /\ Advance(c)
               /\ UNCHANGED <<pstats, clock, can_sent, cur, published, message_queue>>
          ELSE IF parsed.kind = "number"
          THEN \* "field not in data" raises TypeError on a number
               /\ stats' = [received EXCEPT !.errors = @ + 1]
               /\ pstats' = counted
               /\ Advance(c)
               /\ UNCHANGED <<clock, can_sent, cur, published, message_queue>>
          ELSE IF v.ret = "False"
          THEN /\ stats' = received
               /\ pstats' = CountValidation(counted, v)
               /\ Advance(c)
               /\ UNCHANGED <<clock, can_sent, cur, published, message_queue>>
          ELSE IF v.ret = "raise"
          THEN /\ stats' = [received EXCEPT !.errors = @ + 1]
               /\ pstats' = CountValidation(counted, v)
               /\ Advance(c)
               /\ UNCHANGED <<clock, can_sent, cur, published, message_queue>>
          ELSE LET frame == Enrich(parsed.obj, clock + 1)
                   bus == send_to_can_bus(received, can_sent, frame, can_shutdown)
               IN /\ clock' = clock + 1
                  /\ pstats' = CountById(counted, frame.can_id.n)
                  /\ can_sent' = bus.can_sent
                  /\ IF publisher_closed
                     THEN /\ Forwarded(c, bus.stats)
                          /\ UNCHANGED <<published, message_queue, cur>>
                     ELSE /\ published' = Append(published, frame)
                          /\ IF QueueFull(message_queue, queue_maxsize)
                             THEN /\ pc' = [pc EXCEPT ![c] = "evict"]
                                  /\ cur' = [cur EXCEPT ![c] = frame]
                                  /\ stats' = bus.stats
                                  /\ UNCHANGED <<message_queue, pending>>
                             ELSE /\ message_queue' = Append(message_queue, frame)
                                  /\ Forwarded(c, bus.stats)
                                  /\ UNCHANGED cur
    /\ UNCHANGED <<mainpc, running, client_connected, publisher_closed, can_shutdown,
                   exit, wire, sent, buffer, queue_maxsize, arg, ret>>

\* The iteration with "self.stats['messages_received'] += 1" as one step:
\* n is the count as it stands.
ProcessIncoming(c) ==
    /\ ProcessIncomingFrom(c, stats.messages_received)
    /\ UNCHANGED peerVars

\* No increment is in progress.
NoRace == loaded = [c \in Conns |-> -1] /\ stops = 0

\* "self.stats['messages_received'] += 1" reads the count, adds one and
\* stores the sum, and another handler thread can run in between.  The
\* handler of c has parsed its message and reads the count.
LoadReceived(c) ==
    /\ pc[c] = "msgs"
    /\ loaded[c] = -1
    /\ json_loads(Head(pending[c])).kind # "JSONDecodeError"
    /\ loaded' = [loaded EXCEPT ![c] = stats.messages_received]
    /\ UNCHANGED <<serverVars, stops>>
    /\ UNCHANGED notRaceVars

\* It stores the count it read plus one, and goes through the rest of the
\* iteration.
StoreReceived(c) ==
    /\ loaded[c] # -1
    /\ ProcessIncomingFrom(c, loaded[c])
    /\ loaded' = [loaded EXCEPT ![c] = -1]
    /\ UNCHANGED <<stops, notRaceVars>>

(* ------------------------------ forward_message, queue full ----------- *)
\* except queue.Full: get_nowait drops the oldest message (Empty is swallowed
\* by the bare except).
ForwardEvict(c) ==
    /\ pc[c] = "evict"
    /\ IF message_queue = <<>>
       THEN /\ Forwarded(c, stats)
            /\ cur' = [cur EXCEPT ![c] = NoFrame]
            /\ UNCHANGED message_queue
       ELSE /\ message_queue' = get_nowait(message_queue)
            /\ pc' = [pc EXCEPT ![c] = "reput"]
            /\ UNCHANGED <<stats, pending, cur>>
    /\ UNCHANGED <<mainpc, running, client_connected, publisher_closed, can_shutdown,
                   pstats, clock, published, can_sent, exit, wire, sent, buffer, queue_maxsize, arg, ret>>
    /\ UNCHANGED peerVars

\* The second put_nowait; Full is swallowed by the bare except.
ForwardReput(c) ==
    /\ pc[c] = "reput"
    /\ message_queue' = IF QueueFull(message_queue, queue_maxsize)
                        THEN message_queue
                        ELSE Append(message_queue, cur[c])
    /\ Forwarded(c, stats)
    /\ cur' = [cur EXCEPT ![c] = NoFrame]
    /\ UNCHANGED <<mainpc, running, client_connected, publisher_closed, can_shutdown,
                   pstats, clock, published, can_sent, exit, wire, sent, buffer, queue_maxsize, arg, ret>>
    /\ UNCHANGED peerVars

(* ------------------------------ source side: the transport ------------ *)
\* WSL2SocketBridge.max_reconnect_attempts
max_reconnect_attempts == 5

\* The fields of WSL2SocketBridge, and the calls of socket.connect so far.
BridgeState ==
    [has_socket |-> has_socket, connected |-> connected,
     reconnect_attempts |-> reconnect_attempts, connects |-> connects]

\* connect(): a new socket, then socket.connect, which succeeds when the
\* server is reachable and raises otherwise.
connect(b, reachable) ==
    IF reachable
    THEN [b |-> [b EXCEPT !.has_socket = TRUE, !.connected = TRUE,
                          !.reconnect_attempts = 0, !.connects = @ + 1],
          ret |-> TRUE]
    ELSE [b |-> [b EXCEPT !.has_socket = TRUE, !.connected = FALSE,
                          !.connects = @ + 1],
          ret |-> FALSE]

\* A reconnect without the test of the attempts made.
reconnect_uncapped(b, reachable) ==
    connect([b EXCEPT !.reconnect_attempts = @ + 1], reachable)
\* reconnect(): give up at max_reconnect_attempts, else count, sleep, connect.
reconnect(b, reachable) ==
    IF b.reconnect_attempts >= max_reconnect_attempts
    THEN [b |-> b, ret |-> FALSE]
    ELSE connect([b EXCEPT !.reconnect_attempts = @ + 1], reachable)

\* How socket.sendall can end: it returns, or raises socket.timeout, a
\* ConnectionError, or another exception (an OSError that is neither).
WriteOutcomes == {"ok", "timeout", "ConnectionError", "Exception"}

\* send_data(): reconnect when not connected, then write; write is "none"
\* when nothing was written.
send_data(b, reachable, write) ==
    LET r == IF ~b.connected \/ ~b.has_socket
             THEN reconnect(b, reachable)
             ELSE [b |-> b, ret |-> TRUE]
    IN IF ~r.ret
       THEN [b |-> r.b, ret |-> FALSE, write |-> "none"]
       ELSE IF write = "ok"
       THEN [b |-> r.b, ret |-> TRUE, write |-> write]
       ELSE IF write \in {"timeout", "ConnectionError"}
       THEN [b |-> [r.b EXCEPT !.connected = FALSE], ret |-> FALSE, write |-> write]
       ELSE [b |-> r.b, ret |-> FALSE, write |-> write]

\* close(): the socket is closed (and stays set), connected = False.
close(b) == [b EXCEPT !.connected = FALSE]

\* The transport's fields after a call.
SetBridge(b) ==
    /\ has_socket' = b.has_socket
    /\ connected' = b.connected
    /\ reconnect_attempts' = b.reconnect_attempts
    /\ connects' = b.connects

(* ------------------------------ source side: the coordinator ---------- *)
\* The iterations of the run loop before its duration has elapsed, at most.
MaxTicks == 7

NoSend == [ret |-> "none", write |-> "none"]

InitBStats == [messages_sent |-> 0, messages_failed |-> 0, encoded |-> 0,
               offered |-> 0, written |-> 0]

\* The state after FMUCANBridge.__init__.
InitBridge ==
    /\ bpc = "idle"
    /\ brunning = FALSE
    /\ fmu_loaded = FALSE
    /\ has_socket = FALSE
    /\ connected = FALSE
    /\ reconnect_attempts = 0
    /\ connects = 0
    /\ send_ret = NoSend
    /\ bstats = InitBStats
    /\ ticks = 0

\* initialize(): fmu_sim.load() and setup(); an exception leaves main.
InitializeLoad ==
    /\ bpc = "idle"
    /\ \E ok \in BOOLEAN :
          /\ fmu_loaded' = ok
          /\ bpc' = IF ok THEN "initializing" ELSE "failed"
    /\ UNCHANGED <<brunning, has_socket, connected, reconnect_attempts,
                   connects, send_ret, bstats, ticks>>
    /\ UNCHANGED notBridgeVars

\* initialize(): socket_bridge.connect(); a failure is logged only.
InitializeConnect ==
    /\ bpc = "initializing"
    /\ \E reachable \in BOOLEAN : SetBridge(connect(BridgeState, reachable).b)
    /\ bpc' = "ready"
    /\ UNCHANGED <<brunning, fmu_loaded, send_ret, bstats, ticks>>
    /\ UNCHANGED notBridgeVars

\* run_simulation(): self.running = True, enter the loop.
RunStart ==
    /\ bpc = "ready"
    /\ brunning' = TRUE
    /\ bpc' = "loop"
    /\ UNCHANGED <<fmu_loaded, has_socket, connected, reconnect_attempts,
                   connects, send_ret, bstats, ticks>>
    /\ UNCHANGED notBridgeVars

\* The loop test: the duration has not elapsed and self.running.
RunLoopTest ==
    /\ bpc = "loop"
    /\ \E elapsed \in BOOLEAN :
          IF ~elapsed /\ brunning /\ ticks < MaxTicks
          THEN bpc' = "step" /\ ticks' = ticks + 1
          ELSE bpc' = "stopping" /\ UNCHANGED ticks
    /\ UNCHANGED <<brunning, fmu_loaded, has_socket, connected,
                   reconnect_attempts, connects, send_ret, bstats>>
    /\ UNCHANGED notBridgeVars

\* fmu_sim.run_step() and encoder.encode(): a frame, or an exception of the
\* FMU, which the loop's except clause logs before the finally clause.
RunStep ==
    /\ bpc = "step"
    /\ \E ok \in BOOLEAN :
          IF ok
          THEN /\ bstats' = [bstats EXCEPT !.encoded = @ + 1]
               /\ bpc' = "send"
          ELSE /\ bpc' = "stopping"
               /\ UNCHANGED bstats
    /\ UNCHANGED <<brunning, fmu_loaded, has_socket, connected, reconnect_attempts,
                   connects, send_ret, ticks>>
    /\ UNCHANGED notBridgeVars

\* socket_bridge.send_data(can_frame).
SendData ==
    /\ bpc = "send"
    /\ \E reachable \in BOOLEAN, write \in WriteOutcomes :
          LET r == send_data(BridgeState, reachable, write)
          IN /\ SetBridge(r.b)
             /\ send_ret' = [ret |-> IF r.ret THEN "True" ELSE "False",
                             write |-> r.write]
             /\ bstats' = [bstats EXCEPT
                              !.offered = @ + 1,
                              !.written = IF r.write = "none" THEN @ ELSE @ + 1]
    /\ bpc' = "count"
    /\ UNCHANGED <<brunning, fmu_loaded, ticks>>
    /\ UNCHANGED notBridgeVars

\* A loop that counts the frames sent only.
count_sent_only(st, sent_ok) ==
    IF sent_ok THEN [st EXCEPT !.messages_sent = @ + 1] ELSE st
\* if send_data(...): messages_sent += 1, else: messages_failed += 1.
count_tick(st, sent_ok) ==
    IF sent_ok
    THEN [st EXCEPT !.messages_sent = @ + 1]
    ELSE [st EXCEPT !.messages_failed = @ + 1]

\* The rest of the iteration: count, sleep to the next cycle.
CountTick ==
    /\ bpc = "count"
    /\ bstats' = count_tick(bstats, send_ret.ret = "True")
    /\ bpc' = "loop"
    /\ UNCHANGED <<brunning, fmu_loaded, has_socket, connected,
                   reconnect_attempts, connects, send_ret, ticks>>
    /\ UNCHANGED notBridgeVars

\* KeyboardInterrupt in the loop: logged, then the finally clause.
Interrupt ==
    /\ bpc \in {"loop", "step", "send", "count"}
    /\ bpc' = "stopping"
    /\ UNCHANGED <<brunning, fmu_loaded, has_socket, connected,
                   reconnect_attempts, connects, send_ret, bstats, ticks>>
    /\ UNCHANGED notBridgeVars

\* stop(): running = False, fmu_sim.cleanup() (terminate and freeInstance of
\* the FMU, which can raise), socket_bridge.close().
BridgeStop ==
    /\ bpc = "stopping"
    /\ brunning' = FALSE
    /\ \E cleanup_ok \in BOOLEAN :
          IF cleanup_ok \/ ~fmu_loaded
          THEN /\ SetBridge(close(BridgeState))
               /\ bpc' = "stopped"
          ELSE /\ bpc' = "escaped"
               /\ UNCHANGED <<has_socket, connected, reconnect_attempts, connects>>
    /\ UNCHANGED <<fmu_loaded, send_ret, bstats, ticks>>
    /\ UNCHANGED notBridgeVars

(* ------------------------------ encoder and decoders ------------------ *)
\* A signal of a dict of signals: absent, or present with value n.  A
\* boolean is 1 or 0, as True == 1 and False == 0.
NoSignal == [p |-> FALSE, v |-> 0]
Signal(n) == [p |-> TRUE, v |-> n]

Min(a, b) == IF a <= b THEN a ELSE b
Max(a, b) == IF a >= b THEN a ELSE b

\* a | b and a & b on integers >= 0.
RECURSIVE BitOr(_, _)
BitOr(a, b) ==
    IF a = 0 THEN b
    ELSE IF b = 0 THEN a
    ELSE Max(a % 2, b % 2) + 2 * BitOr(a \div 2, b \div 2)
RECURSIVE BitAnd(_, _)
BitAnd(a, b) ==
    IF a = 0 \/ b = 0 THEN 0
    ELSE Min(a % 2, b % 2) + 2 * BitAnd(a \div 2, b \div 2)

\* x & 0xFF and x >> 8 on any integer (two's complement, as in Python).
AndFF(x) == x % 256
ShiftRight8(x) == x \div 256

\* CANMessageEncoder.config['light_control']['signals']: the boolean signals
\* and their bits in byte 0, in the order of the dict.
BoolSignals ==
    <<[name |-> "headlamp", bit |-> 0], [name |-> "tailLamp", bit |-> 1],
      [name |-> "brakeLamp", bit |-> 2], [name |-> "indicator_left", bit |-> 3],
      [name |-> "indicator_right", bit |-> 4]>>

\* The loop over the boolean signals: data[byte] |= (1 << bit) for the ones
\* that are in fmu_data and true.
RECURSIVE SetBools(_, _, _)
SetBools(byte0, d, k) ==
    IF k > Len(BoolSignals) THEN byte0
    ELSE LET sig == BoolSignals[k]
         IN SetBools(IF d[sig.name].p /\ d[sig.name].v # 0
                     THEN BitOr(byte0, 2 ^ sig.bit)
                     ELSE byte0,
                     d, k + 1)

\* An encoder that stores the low byte of ambient before the high byte.
encode_low_byte_first(d) ==
    [can_id |-> JInt(256),
     can_data |-> JList(<<SetBools(0, d, 1),
                          IF d.light_level.p THEN Max(0, Min(255, d.light_level.v)) ELSE 0,
                          IF d.vehicle_speed.p THEN Max(0, Min(255, d.vehicle_speed.v)) ELSE 0,
                          IF d.ambient.p THEN AndFF(d.ambient.v) ELSE 0,
                          IF d.ambient.p THEN AndFF(ShiftRight8(d.ambient.v)) ELSE 0,
                          0, 0, 0>>),
     dlc |-> JInt(8),
     schemaTag |-> JAbsent,
     source |-> JStr(<<"autoLamp_fmu">>)]
\* An encoder that stores light_level and vehicle_speed as they come.
encode_unclamped(d) ==
    [can_id |-> JInt(256),
     can_data |-> JList(<<SetBools(0, d, 1),
                          IF d.light_level.p THEN d.light_level.v ELSE 0,
                          IF d.vehicle_speed.p THEN d.vehicle_speed.v ELSE 0,
                          IF d.ambient.p THEN AndFF(ShiftRight8(d.ambient.v)) ELSE 0,
                          IF d.ambient.p THEN AndFF(d.ambient.v) ELSE 0,
                          0, 0, 0>>),
     dlc |-> JInt(8),
     schemaTag |-> JAbsent,
     source |-> JStr(<<"autoLamp_fmu">>)]
\* An encoder that fills the byte of an absent light_level.
encode_absent_as_full(d) ==
    [can_id |-> JInt(256),
     can_data |-> JList(<<SetBools(0, d, 1),
                          IF d.light_level.p THEN Max(0, Min(255, d.light_level.v)) ELSE 255,
                          IF d.vehicle_speed.p THEN Max(0, Min(255, d.vehicle_speed.v)) ELSE 0,
                          IF d.ambient.p THEN AndFF(ShiftRight8(d.ambient.v)) ELSE 0,
                          IF d.ambient.p THEN AndFF(d.ambient.v) ELSE 0,
                          0, 0, 0>>),
     dlc |-> JInt(8),
     schemaTag |-> JAbsent,
     source |-> JStr(<<"autoLamp_fmu">>)]
\* CANMessageEncoder.encode on integer signal values: the envelope it
\* returns, as the server parses it (can_id, can_data, dlc, source; the
\* timestamp and sim_time members play no part here).
encode(d) ==
    [can_id |-> JInt(256),
     can_data |-> JList(<<SetBools(0, d, 1),
                          IF d.light_level.p THEN Max(0, Min(255, d.light_level.v)) ELSE 0,
                          IF d.vehicle_speed.p THEN Max(0, Min(255, d.vehicle_speed.v)) ELSE 0,
                          IF d.ambient.p THEN AndFF(ShiftRight8(d.ambient.v)) ELSE 0,
                          IF d.ambient.p THEN AndFF(d.ambient.v) ELSE 0,
                          0, 0, 0>>),
     dlc |-> JInt(8),
     schemaTag |-> JAbsent,
     source |-> JStr(<<"autoLamp_fmu">>)]

\* The dict of decoded signals with nothing in it.
NoSignals ==
    [headLamp |-> NoSignal, tailLamp |-> NoSignal, brakeLamp |-> NoSignal,
     indicatorLeft |-> NoSignal, indicatorRight |-> NoSignal,
     lightLevel |-> NoSignal, vehicleSpeed |-> NoSignal, ambient |-> NoSignal]

\* bool(byte & mask)
Bit(byte, mask) == Signal(IF BitAnd(byte, mask) # 0 THEN 1 ELSE 0)

\* SimpleZonalController.decode_can_data
decode_can_data(can_id, data) ==
    IF can_id # 256 THEN NoSignals
    ELSE [headLamp       |-> IF Len(data) > 0 THEN Bit(data[1], 1) ELSE NoSignal,
          tailLamp       |-> IF Len(data) > 0 THEN Bit(data[1], 2) ELSE NoSignal,
          brakeLamp      |-> IF Len(data) > 0 THEN Bit(data[1], 4) ELSE NoSignal,
          indicatorLeft  |-> IF Len(data) > 0 THEN Bit(data[1], 8) ELSE NoSignal,
          indicatorRight |-> IF Len(data) > 0 THEN Bit(data[1], 16) ELSE NoSignal,
          lightLevel     |-> IF Len(data) > 1 THEN Signal(data[2]) ELSE NoSignal,
          vehicleSpeed   |-> IF Len(data) > 2 THEN Signal(data[3]) ELSE NoSignal,
          ambient        |-> IF Len(data) > 4
                             THEN Signal(BitOr(data[4] * 256, data[5]))
                             ELSE NoSignal]

\* The dict of signal values given to encode with nothing in it.
NoFmuData ==
    [headlamp |-> NoSignal, tailLamp |-> NoSignal, brakeLamp |-> NoSignal,
     indicator_left |-> NoSignal, indicator_right |-> NoSignal,
     light_level |-> NoSignal, vehicle_speed |-> NoSignal, ambient |-> NoSignal]

\* No decoder has run: the path the frame took, whether it was decoded, the
\* decoded signals and the VSS samples made of them.
NotDecoded == [path |-> "none", found |-> FALSE, sig |-> NoSignals, vss |-> <<>>]

\* A VSS sample: its path and its value.
VSS(path, value) == [path |-> path, value |-> value]

\* A mapper that takes the high beam from tailLamp.
map_to_vss_from_tail(can_id, d) ==
    IF can_id # 256 THEN <<>>
    ELSE (IF d.tailLamp.p THEN <<VSS("Vehicle.Body.Lights.IsHighBeamOn", d.tailLamp.v)>> ELSE <<>>)
      \o (IF d.tailLamp.p THEN <<VSS("Vehicle.Body.Lights.IsTailLightOn", d.tailLamp.v)>> ELSE <<>>)
      \o (IF d.lightLevel.p THEN <<VSS("Vehicle.Body.Lights.AmbientLight", d.lightLevel.v)>> ELSE <<>>)
      \o (IF d.vehicleSpeed.p THEN <<VSS("Vehicle.Speed", d.vehicleSpeed.v)>> ELSE <<>>)
\* SimpleZonalController.map_to_vss: the samples, in the order it appends them.
map_to_vss(can_id, d) ==
    IF can_id # 256 THEN <<>>
    ELSE (IF d.headLamp.p THEN <<VSS("Vehicle.Body.Lights.IsHighBeamOn", d.headLamp.v)>> ELSE <<>>)
      \o (IF d.tailLamp.p THEN <<VSS("Vehicle.Body.Lights.IsTailLightOn", d.tailLamp.v)>> ELSE <<>>)
      \o (IF d.lightLevel.p THEN <<VSS("Vehicle.Body.Lights.AmbientLight", d.lightLevel.v)>> ELSE <<>>)
      \o (IF d.vehicleSpeed.p THEN <<VSS("Vehicle.Speed", d.vehicleSpeed.v)>> ELSE <<>>)

\* SimpleZonalController.process_message, but for the statistics and the
\* log: nothing without a can_id or a payload, else decode and map.
process_message(path, data) ==
    IF data.can_id.t = "absent" \/ data.can_data.t = "absent"
       \/ data.can_id.n = 0 \/ data.can_data.l = <<>>
    THEN [path |-> path, found |-> FALSE, sig |-> NoSignals, vss |-> <<>>]
    ELSE LET d == decode_can_data(data.can_id.n, data.can_data.l)
         IN [path |-> path, found |-> TRUE, sig |-> d,
             vss |-> map_to_vss(data.can_id.n, d)]

\* No call of the encoder or of a decoder is in progress.
NoCodec ==
    /\ fmu_data = NoFmuData
    /\ can_frame = EmptyObject
    /\ decoded = NotDecoded

(* ------------------------------ the other loops ----------------------- *)
\* The bounds of the model on can_rx_queue and can_tx_queue, which the code
\* does not bound: a put on a queue that holds this many messages is left out.
MaxCanRx == 2
MaxCanTx == 2

\* queue.Queue.put, up to the bound of the model.
QueuePut(q, m, max) == IF Len(q) < max THEN Append(q, m) ELSE q

\* The zone main() gives the controller when no argument is passed.
zone_id == 1

\* bytes.hex(): two hexadecimal digits for each byte, each digit kept as its
\* value.
hex(data) ==
    [k \in 1..(2 * Len(data)) |->
        IF k % 2 = 1 THEN data[(k + 1) \div 2] \div 16 ELSE data[k \div 2] % 16]

\* int(digits, 16) of a string of hexadecimal digits; -1 for the ValueError
\* on the empty string.
RECURSIVE int_base16(_)
int_base16(digits) ==
    IF digits = <<>> THEN -1
    ELSE IF Len(digits) = 1 THEN digits[1]
    ELSE 16 * int_base16(SubSeq(digits, 1, Len(digits) - 1)) + digits[Len(digits)]

\* The message can_receiver_thread puts in can_rx_queue for a frame of the
\* bus.
ReceivedMessage(id, data) == [id |-> id, data |-> hex(data), dlc |-> Len(data)]

\* zone_data after __init__: no sensor, no actuator, no 'system_status' key
\* (-1 here).
InitZoneData ==
    [sensors |-> [i \in {} |-> <<>>], actuators |-> [i \in {} |-> <<>>],
     system_status |-> -1]

\* d[key] = value on a dictionary.
SetItem(d, key, value) ==
    [i \in DOMAIN d \cup {key} |-> IF i = key THEN value ELSE d[i]]

\* What a handler leaves: zone_data, can_tx_queue, and whether it raised.
Routed(zd, tx, raised) == [zone_data |-> zd, can_tx_queue |-> tx, raised |-> raised]

\* handle_system_status: int(data[:2], 16).
handle_system_status(zd, tx, data) ==
    LET status_byte == int_base16(SubSeq(data, 1, IF Len(data) < 2 THEN Len(data) ELSE 2))
    IN IF status_byte = -1 THEN Routed(zd, tx, TRUE)
       ELSE Routed([zd EXCEPT !.system_status = status_byte], tx, FALSE)

\* handle_sensor_data: sensors[can_id & 0xFF] = the data (and the time).
handle_sensor_data(zd, tx, can_id, data) ==
    Routed([zd EXCEPT !.sensors = SetItem(@, can_id % 256, data)], tx, FALSE)

\* handle_actuator_command: actuators[can_id & 0xFF] = the command (and the
\* time), and the feedback message is put on can_tx_queue.
handle_actuator_command(zd, tx, can_id, data) ==
    LET actuator_id == can_id % 256
        feedback_msg == [id |-> 1024 + actuator_id, data |-> data]
    IN Routed([zd EXCEPT !.actuators = SetItem(@, actuator_id, data)],
              QueuePut(tx, feedback_msg, MaxCanTx), FALSE)

\* process_can_message routed to the first branch, whatever the identifier.
zc_process_can_message_unrouted(zd, tx, msg) == handle_system_status(zd, tx, msg.data)

\* ZonalControllerCAN.process_can_message: the handler the identifier
\* selects, or none.
zc_process_can_message(zd, tx, msg) ==
    IF msg.id = 256 THEN handle_system_status(zd, tx, msg.data)
    ELSE IF 512 <= msg.id /\ msg.id <= 767 THEN handle_sensor_data(zd, tx, msg.id, msg.data)
    ELSE IF 768 <= msg.id /\ msg.id <= 1023 THEN handle_actuator_command(zd, tx, msg.id, msg.data)
    ELSE Routed(zd, tx, FALSE)

\* send_zone_status: the status message of the zone; its last byte, the
\* seconds of the clock modulo 256, is kept as 0.
send_zone_status(tx) ==
    QueuePut(tx, [id |-> 1280 + zone_id, data |-> hex(<<zone_id, 1, 0>>)], MaxCanTx)

\* No loop of KuksaCANBridge, SimpleZonalController or ZonalControllerCAN
\* has been started.  ZonalControllerCAN sets running in __init__.
LoopsIdle(bus) ==
    /\ kpc = "idle"
    /\ sub_pc = "idle"
    /\ sub_running = FALSE
    /\ zc_pc = "idle"
    /\ zc_running = TRUE
    /\ rx_pc = "idle"
    /\ zp_pc = "idle"
    /\ can_rx_queue = <<>>
    /\ can_tx_queue = <<>>
    /\ zone_data = InitZoneData
    /\ can_bus_rx = bus

NoLoops == LoopsIdle({})

\* run_with_kuksa in mode 'both', after can_bridge.initialize() and
\* can_thread.start(): fmu_sim.load() and setup(), outside the try.
KuksaLoad ==
    /\ kpc = "idle"
    /\ bpc \notin {"idle", "initializing", "failed"}
    /\ \E load_ok \in BOOLEAN : kpc' = IF load_ok THEN "connect" ELSE "done"
    /\ UNCHANGED <<launched, sub_pc, sub_running, zc_pc, zc_running, rx_pc, zp_pc, can_rx_queue, can_tx_queue,
                   zone_data, can_bus_rx>>
    /\ UNCHANGED notLoopVars

\* async with VSSClient(...): a failure goes to except Exception and finally.
KuksaConnect ==
    /\ kpc = "connect"
    /\ \E connect_ok \in BOOLEAN : kpc' = IF connect_ok THEN "step" ELSE "done"
    /\ UNCHANGED <<launched, sub_pc, sub_running, zc_pc, zc_running, rx_pc, zp_pc, can_rx_queue, can_tx_queue,
                   zone_data, can_bus_rx>>
    /\ UNCHANGED notLoopVars

\* while True: fmu_data = self.fmu_sim.run_step(); an exception ends the loop.
KuksaStep ==
    /\ kpc = "step"
    /\ \E step_ok \in BOOLEAN : kpc' = IF step_ok THEN "send" ELSE "done"
    /\ UNCHANGED <<launched, sub_pc, sub_running, zc_pc, zc_running, rx_pc, zp_pc, can_rx_queue, can_tx_queue,
                   zone_data, can_bus_rx>>
    /\ UNCHANGED notLoopVars

\* send_to_kuksa, which catches its exceptions, and encode.
KuksaSend ==
    /\ kpc = "send"
    /\ kpc' = "sleep"
    /\ UNCHANGED <<launched, sub_pc, sub_running, zc_pc, zc_running, rx_pc, zp_pc, can_rx_queue, can_tx_queue,
                   zone_data, can_bus_rx>>
    /\ UNCHANGED notLoopVars

\* await asyncio.sleep(self.fmu_sim.dt), and the loop goes round: its
\* condition is True.
KuksaSleep ==
    /\ kpc = "sleep"
    /\ kpc' = "step"
    /\ UNCHANGED <<launched, sub_pc, sub_running, zc_pc, zc_running, rx_pc, zp_pc, can_rx_queue, can_tx_queue,
                   zone_data, can_bus_rx>>
    /\ UNCHANGED notLoopVars

\* KeyboardInterrupt in the main thread: asyncio.run cancels the task, the
\* finally clause runs cleanup.
KuksaInterrupt ==
    /\ kpc \in {"connect", "step", "send", "sleep"}
    /\ kpc' = "done"
    /\ UNCHANGED <<launched, sub_pc, sub_running, zc_pc, zc_running, rx_pc, zp_pc, can_rx_queue, can_tx_queue,
                   zone_data, can_bus_rx>>
    /\ UNCHANGED notLoopVars

\* SimpleZonalController.run up to the loop: connect_to_zmq, running = True.
SubRun ==
    /\ sub_pc = "idle"
    /\ \E connect_ok \in BOOLEAN :
          IF connect_ok
          THEN sub_pc' = "test" /\ sub_running' = TRUE
          ELSE sub_pc' = "returned" /\ UNCHANGED sub_running
    /\ UNCHANGED <<launched, kpc, zc_pc, zc_running, rx_pc, zp_pc, can_rx_queue, can_tx_queue,
                   zone_data, can_bus_rx>>
    /\ UNCHANGED notLoopVars

\* while self.running
SubLoopTest ==
    /\ sub_pc = "test"
    /\ sub_pc' = IF sub_running THEN "recv" ELSE "finally"
    /\ UNCHANGED <<launched, kpc, sub_running, zc_pc, zc_running, rx_pc, zp_pc, can_rx_queue, can_tx_queue,
                   zone_data, can_bus_rx>>
    /\ UNCHANGED notLoopVars

\* recv_json() returns a message of the publisher, which is processed, or
\* raises, which is logged and followed by sleep(1).  It has no timeout.
SubRecv ==
    /\ sub_pc = "recv"
    /\ sub_pc' = "test"
    /\ UNCHANGED <<launched, kpc, sub_running, zc_pc, zc_running, rx_pc, zp_pc, can_rx_queue, can_tx_queue,
                   zone_data, can_bus_rx>>
    /\ UNCHANGED notLoopVars

\* KeyboardInterrupt in the loop.
SubInterrupt ==
    /\ sub_pc \in {"test", "recv"}
    /\ sub_pc' = "finally"
    /\ UNCHANGED <<launched, kpc, sub_running, zc_pc, zc_running, rx_pc, zp_pc, can_rx_queue, can_tx_queue,
                   zone_data, can_bus_rx>>
    /\ UNCHANGED notLoopVars

\* finally: self.stop(), which sets running = False and closes the socket.
SubStop ==
    /\ sub_pc = "finally"
    /\ sub_pc' = "exited"
    /\ sub_running' = FALSE
    /\ UNCHANGED <<launched, kpc, zc_pc, zc_running, rx_pc, zp_pc, can_rx_queue, can_tx_queue,
                   zone_data, can_bus_rx>>
    /\ UNCHANGED notLoopVars

\* ZonalControllerCAN.start: the receiver and the zone processor are started;
\* the start of can_tx_thread is commented out.
ZcStart ==
    /\ zc_pc = "idle"
    /\ zc_pc' = "started"
    /\ rx_pc' = "test"
    /\ zp_pc' = "test"
    /\ UNCHANGED <<launched, kpc, sub_pc, sub_running, zc_running, can_rx_queue, can_tx_queue,
                   zone_data, can_bus_rx>>
    /\ UNCHANGED notLoopVars

\* ZonalControllerCAN.stop, after sleep(60) or KeyboardInterrupt: running =
\* False; each join gives up after 2 seconds.
ZcStop ==
    /\ zc_pc = "started"
    /\ zc_pc' = "stopped"
    /\ zc_running' = FALSE
    /\ UNCHANGED <<launched, kpc, sub_pc, sub_running, rx_pc, zp_pc, can_rx_queue, can_tx_queue,
                   zone_data, can_bus_rx>>
    /\ UNCHANGED notLoopVars

\* can_receiver_thread: the test of "while self.running".
RxLoopTest ==
    /\ rx_pc = "test"
    /\ rx_pc' = IF zc_running THEN "recv" ELSE "exited"
    /\ UNCHANGED <<launched, kpc, sub_pc, sub_running, zc_pc, zc_running, zp_pc, can_rx_queue, can_tx_queue,
                   zone_data, can_bus_rx>>
    /\ UNCHANGED notLoopVars

\* can_bus.recv(timeout=1.0): a message, which is put in the queue, or None
\* or an exception, which is printed.
RxRecv ==
    /\ rx_pc = "recv"
    /\ rx_pc' = "test"
    /\ \/ can_rx_queue' = can_rx_queue
       \/ \E m \in can_bus_rx : can_rx_queue' = QueuePut(can_rx_queue, m, MaxCanRx)
    /\ UNCHANGED <<launched, kpc, sub_pc, sub_running, zc_pc, zc_running, zp_pc,
                   can_tx_queue, zone_data, can_bus_rx>>
    /\ UNCHANGED notLoopVars

\* zone_processor: the test of "while self.running".
ZpLoopTest ==
    /\ zp_pc = "test"
    /\ zp_pc' = IF zc_running THEN "work" ELSE "exited"
    /\ UNCHANGED <<launched, kpc, sub_pc, sub_running, zc_pc, zc_running, rx_pc, can_rx_queue, can_tx_queue,
                   zone_data, can_bus_rx>>
    /\ UNCHANGED notLoopVars

\* while not self.can_rx_queue.empty(): the oldest message is taken and
\* processed; an exception is printed and followed by sleep(0.1) and the
\* test of the outer loop.
ZpDrain ==
    /\ zp_pc = "work"
    /\ can_rx_queue # <<>>
    /\ can_rx_queue' = Tail(can_rx_queue)
    /\ LET done == zc_process_can_message(zone_data, can_tx_queue, Head(can_rx_queue))
       IN /\ zone_data' = done.zone_data
          /\ can_tx_queue' = done.can_tx_queue
          /\ zp_pc' = IF done.raised THEN "test" ELSE zp_pc
    /\ UNCHANGED <<launched, kpc, sub_pc, sub_running, zc_pc, zc_running, rx_pc, can_bus_rx>>
    /\ UNCHANGED notLoopVars

\* The queue is empty: send_zone_status, control_logic, sleep(0.01); an
\* exception is printed and followed by sleep(0.1).
ZpCycle ==
    /\ zp_pc = "work"
    /\ can_rx_queue = <<>>
    /\ zp_pc' = "test"
    /\ can_tx_queue' = send_zone_status(can_tx_queue)
    /\ UNCHANGED <<launched, kpc, sub_pc, sub_running, zc_pc, zc_running, rx_pc, can_rx_queue,
                   zone_data, can_bus_rx>>
    /\ UNCHANGED notLoopVars

\* The state of the other processes in a run of the socket server alone.

\* can_frame = self.encoder.encode(fmu_data)
Encode ==
    /\ can_frame = EmptyObject
    /\ can_frame' = encode(fmu_data)
    /\ UNCHANGED <<fmu_data, decoded>>
    /\ UNCHANGED notCodecVars

\* SimpleZonalController.process_message on the frame: can_id and can_data
\* are taken from it and decoded.
SimpleDecode ==
    /\ can_frame # EmptyObject
    /\ decoded = NotDecoded
    /\ decoded' = process_message("simple", can_frame)
    /\ UNCHANGED <<fmu_data, can_frame>>
    /\ UNCHANGED notCodecVars

\* DBCManager.create_virtual_database: the signals of message 0x100
\* (LIGHT_CONTROL, length 8), each with its start bit and its length in bits,
\* unsigned, scale 1, offset 0.
DbcSignals ==
    <<[name |-> "headLamp", start |-> 0, length |-> 1],
      [name |-> "tailLamp", start |-> 1, length |-> 1],
      [name |-> "brakeLamp", start |-> 2, length |-> 1],
      [name |-> "indicatorLeft", start |-> 3, length |-> 1],
      [name |-> "indicatorRight", start |-> 4, length |-> 1],
      [name |-> "lightLevel", start |-> 8, length |-> 8],
      [name |-> "vehicleSpeed", start |-> 16, length |-> 8]>>

\* data + bytes(8 - len(data)) when len(data) < 8
ZeroPad(data) ==
    IF Len(data) < 8 THEN data \o [i \in 1..(8 - Len(data)) |-> 0] ELSE data

\* The value of the bits start .. start+length-1 of a payload, for a signal
\* that lies within one byte (all of DbcSignals do).
ExtractSignal(data, start, length) ==
    (data[(start \div 8) + 1] \div (2 ^ (start % 8))) % (2 ^ length)

\* self.db.decode_message(can_id, data) on the virtual database with a
\* payload of 8 bytes: every signal of the message, by name.
db_decode_message(data) ==
    [name \in DOMAIN NoSignals |->
        IF \E k \in DOMAIN DbcSignals : DbcSignals[k].name = name
        THEN LET k == CHOOSE k \in DOMAIN DbcSignals : DbcSignals[k].name = name
             IN Signal(ExtractSignal(data, DbcSignals[k].start, DbcSignals[k].length))
        ELSE NoSignal]

\* DBCManager.decode_message: None for an identifier the database does not
\* have, or the signals of the payload padded with zeros to 8 bytes.
decode_message(can_id, data) ==
    IF can_id # 256
    THEN [found |-> FALSE, sig |-> NoSignals]
    ELSE [found |-> TRUE, sig |-> db_decode_message(ZeroPad(data))]

\* A manual decode that reads tailLamp from bit 2 of byte 0.
manual_decode_wrong_mask(can_id, data) ==
    IF can_id # 256 THEN NoSignals
    ELSE [NoSignals EXCEPT
            !.headLamp = IF Len(data) >= 1 THEN Bit(data[1], 1) ELSE NoSignal,
            !.tailLamp = IF Len(data) >= 1 THEN Bit(data[1], 4) ELSE NoSignal,
            !.brakeLamp = IF Len(data) >= 1 THEN Bit(data[1], 4) ELSE NoSignal,
            !.indicatorLeft = IF Len(data) >= 1 THEN Bit(data[1], 8) ELSE NoSignal,
            !.indicatorRight = IF Len(data) >= 1 THEN Bit(data[1], 16) ELSE NoSignal,
            !.lightLevel = IF Len(data) >= 2 THEN Signal(data[2]) ELSE NoSignal,
            !.vehicleSpeed = IF Len(data) >= 3 THEN Signal(data[3]) ELSE NoSignal]
\* DBCManager.manual_decode: the signals it finds in the payload, a boolean
\* as 1 or 0.
manual_decode(can_id, data) ==
    IF can_id # 256 THEN NoSignals
    ELSE [NoSignals EXCEPT
            !.headLamp = IF Len(data) >= 1 THEN Bit(data[1], 1) ELSE NoSignal,
            !.tailLamp = IF Len(data) >= 1 THEN Bit(data[1], 2) ELSE NoSignal,
            !.brakeLamp = IF Len(data) >= 1 THEN Bit(data[1], 4) ELSE NoSignal,
            !.indicatorLeft = IF Len(data) >= 1 THEN Bit(data[1], 8) ELSE NoSignal,
            !.indicatorRight = IF Len(data) >= 1 THEN Bit(data[1], 16) ELSE NoSignal,
            !.lightLevel = IF Len(data) >= 2 THEN Signal(data[2]) ELSE NoSignal,
            !.vehicleSpeed = IF Len(data) >= 3 THEN Signal(data[3]) ELSE NoSignal]

\* The names of the signals of message 0x100 in the database.
DbcNames == {DbcSignals[k].name : k \in DOMAIN DbcSignals}

\* DBCManager.decode_message when self.db.decode_message raises: the signals
\* are those of manual_decode on the padded payload that the message
\* definition has by name.
decode_message_fallback(can_id, data) ==
    IF can_id # 256
    THEN [found |-> FALSE, sig |-> NoSignals]
    ELSE [found |-> TRUE,
          sig |-> [name \in DOMAIN NoSignals |->
                      IF name \in DbcNames
                      THEN manual_decode(can_id, ZeroPad(data))[name]
                      ELSE NoSignal]]

\* ZonalController.process_zmq_message, up to the decoded message.
process_zmq_message(data) ==
    IF data.can_id.t = "absent" \/ data.can_data.t = "absent" \/ data.can_data.t # "list"
    THEN [found |-> FALSE, sig |-> NoSignals]
    ELSE decode_message(data.can_id.n, data.can_data.l)

\* ZonalController.process_can_message, up to the decoded message.
process_can_message(can_msg) == decode_message(can_msg.arbitration_id, can_msg.data)

\* The frame is published by the server and a subscriber hands it to
\* process_zmq_message.
ZmqDecode ==
    /\ can_frame # EmptyObject
    /\ decoded = NotDecoded
    /\ decoded' = [path |-> "zmq", vss |-> <<>>] @@ process_zmq_message(Enrich(can_frame, 0))
    /\ UNCHANGED <<fmu_data, can_frame>>
    /\ UNCHANGED notCodecVars

\* The frame is sent on the CAN bus by send_to_can_bus and the zonal
\* controller hands the received message to process_can_message.
CanDecode ==
    /\ can_frame # EmptyObject
    /\ decoded = NotDecoded
    /\ decoded' = [path |-> "can", vss |-> <<>>] @@ process_can_message(CanMessage(can_frame))
    /\ UNCHANGED <<fmu_data, can_frame>>
    /\ UNCHANGED notCodecVars

\* The same, with self.db.decode_message raising in decode_message.
FallbackDecode ==
    /\ can_frame # EmptyObject
    /\ decoded = NotDecoded
    /\ LET can_msg == CanMessage(can_frame)
       IN decoded' = [path |-> "fallback", vss |-> <<>>] @@
                         decode_message_fallback(can_msg.arbitration_id, can_msg.data)
    /\ UNCHANGED <<fmu_data, can_frame>>
    /\ UNCHANGED notCodecVars

\* The frame is sent to the server, which validates it, enriches it and
\* publishes it; the simple zonal controller receives it and processes it.
\* A frame the server rejects is not published.
Deliver ==
    /\ can_frame # EmptyObject
    /\ decoded = NotDecoded
    /\ decoded' =
          IF validate_message(can_frame).ret = "True"
          THEN process_message("pipeline", Enrich(can_frame, 0))
          ELSE [NotDecoded EXCEPT !.path = "rejected"]
    /\ UNCHANGED <<fmu_data, can_frame>>
    /\ UNCHANGED notCodecVars

(* ------------------------------ the zonal controller ----------------- *)
\* An entry of the mapping table: the VSS path and the conversion, if the
\* entry has one that is not None.
Entry(path, has, scale, offset) ==
    [vss_path |-> path, conversion |-> [has |-> has, scale |-> scale, offset |-> offset]]

\* The default_mappings of load_mappings: the signals of 0x100.  headLamp
\* has conversion None, the lamps that follow have none, lightLevel and
\* vehicleSpeed have scale 1.0 and offset 0.0.
default_mappings ==
    256 :> [headLamp       |-> Entry("Vehicle.Body.Lights.IsHighBeamOn", FALSE, 1, 0),
            tailLamp       |-> Entry("Vehicle.Body.Lights.IsTailLightOn", FALSE, 1, 0),
            brakeLamp      |-> Entry("Vehicle.Body.Lights.IsBrakeLightOn", FALSE, 1, 0),
            indicatorLeft  |-> Entry("Vehicle.Body.Lights.IsLeftIndicatorOn", FALSE, 1, 0),
            indicatorRight |-> Entry("Vehicle.Body.Lights.IsRightIndicatorOn", FALSE, 1, 0),
            lightLevel     |-> Entry("Vehicle.Body.Lights.AmbientLight", TRUE, 1, 0),
            vehicleSpeed   |-> Entry("Vehicle.Speed", TRUE, 1, 0)]

\* No mappings at all.
NoMappings == [i \in {} |-> [n \in {} |-> Entry("", FALSE, 1, 0)]]

\* The mapping resource: absent, unreadable, or a YAML document.
MappingFile(state, content) == [state |-> state, content |-> content]

\* VSSMapper.load_mappings: default_mappings.update(file_mappings) when the
\* file exists, loads and is not empty; the defaults otherwise.
load_mappings(file) ==
    IF file.state # "ok" \/ DOMAIN file.content = {}
    THEN default_mappings
    ELSE file.content @@ default_mappings

\* The decoded message: its identifier and its CANSignal objects in order.
DecodedMessage(can_id, signals) == [can_id |-> can_id, signals |-> signals]
CANSignal(name, value) == [name |-> name, value |-> value]

\* The loop of map_can_to_vss over can_msg.signals from the k-th on.
RECURSIVE MapSignals(_, _, _)
MapSignals(mapping, signals, k) ==
    IF k > Len(signals) THEN <<>>
    ELSE (IF signals[k].name \in DOMAIN mapping
          THEN LET vss_config == mapping[signals[k].name]
                   value == IF vss_config.conversion.has
                            THEN signals[k].value * vss_config.conversion.scale
                                     + vss_config.conversion.offset
                            ELSE signals[k].value
               IN <<VSS(vss_config.vss_path, value)>>
          ELSE <<>>)
         \o MapSignals(mapping, signals, k + 1)

\* A mapper that passes every value through.
map_can_to_vss_unscaled(m, can_msg) ==
    IF can_msg.can_id \notin DOMAIN m THEN <<>>
    ELSE LET named == SelectSeq(can_msg.signals,
                                LAMBDA sg : sg.name \in DOMAIN m[can_msg.can_id])
         IN [k \in 1..Len(named) |->
                VSS(m[can_msg.can_id][named[k].name].vss_path, named[k].value)]
\* VSSMapper.map_can_to_vss
map_can_to_vss(m, can_msg) ==
    IF can_msg.can_id \notin DOMAIN m THEN <<>>
    ELSE MapSignals(m[can_msg.can_id], can_msg.signals, 1)

\* The signal database: unavailable (load_file raises), or a file with
\* LIGHT_CONTROL (0x100) laid out as the built-in message is and
\* DOOR_STATUS (0x101) with the signal doorOpen at bit 0.
DbcPaths == {"unavailable", "lights_and_doors"}

\* A database with no message.
create_empty_database == {}
\* DBCManager.create_virtual_database: the identifiers of its messages.
create_virtual_database == {256}

\* DBCManager.__init__ and load_database: the database of the file, or the
\* virtual database when loading raises; the cache is empty.
load_database(dbc_path) ==
    IF dbc_path = "unavailable"
    THEN [source |-> "virtual", ids |-> create_virtual_database,
          message_cache |-> {}, warnings |-> <<>>]
    ELSE [source |-> "file", ids |-> {256, 257},
          message_cache |-> {}, warnings |-> <<>>]

\* The CANSignal objects of a decoded dict of 0x100, in the order of the
\* message's signals.
RECURSIVE SignalsFrom(_, _)
SignalsFrom(sig, k) ==
    IF k > Len(DbcSignals) THEN <<>>
    ELSE (IF sig[DbcSignals[k].name].p
          THEN <<CANSignal(DbcSignals[k].name, sig[DbcSignals[k].name].v)>>
          ELSE <<>>)
         \o SignalsFrom(sig, k + 1)

\* DBCManager.decode_message on the manager d: the manager after the call
\* (the definition cached, or the warning logged) and the message or None.
\* raises says whether self.db.decode_message raised, which sends the
\* decode to manual_decode; manual_decode knows 0x100 only.
dbc_decode_message(d, can_id, data, raises) ==
    IF can_id \notin d.ids
    THEN [dbc |-> [d EXCEPT !.warnings = Append(@, can_id)],
          found |-> FALSE, msg |-> DecodedMessage(can_id, <<>>)]
    ELSE [dbc |-> [d EXCEPT !.message_cache = @ \cup {can_id}],
          found |-> TRUE,
          msg |-> DecodedMessage(can_id,
                    IF can_id = 256
                    THEN SignalsFrom(IF raises
                                     THEN decode_message_fallback(can_id, data).sig
                                     ELSE decode_message(can_id, data).sig, 1)
                    ELSE IF raises THEN <<>>
                    ELSE <<CANSignal("doorOpen", ZeroPad(data)[1] % 2)>>)]

\* DatabaseManager after setup_database: no rows.
NoRows == [can_messages |-> 0, can_signals |-> 0, vss_signals |-> 0]

\* A save that lets the failure of the insert out.
save_can_message_unguarded(st, can_msg, ok) ==
    [store |-> IF ok THEN [st EXCEPT !.can_messages = @ + 1,
                                     !.can_signals = @ + Len(can_msg.signals)]
               ELSE st,
     raised |-> ~ok]
\* DatabaseManager.save_can_message: the rows are committed, or the failure
\* is logged and the transaction rolled back; nothing is raised.
save_can_message(st, can_msg, ok) ==
    [store |-> IF ok THEN [st EXCEPT !.can_messages = @ + 1,
                                     !.can_signals = @ + Len(can_msg.signals)]
               ELSE st,
     raised |-> FALSE]

\* DatabaseManager.save_vss_signals, likewise.
save_vss_signals(st, vss_signals, ok) ==
    [store |-> IF ok THEN [st EXCEPT !.vss_signals = @ + Len(vss_signals)] ELSE st,
     raised |-> FALSE]

\* What a handler did with one message: the identifier, whether it was
\* decoded, its signals, whether map_can_to_vss was called and what it
\* returned, whether each save committed, and whether the handler's own
\* except clause caught something.
Handled(can_id, found, signals, mapped, vss, saved_msg, saved_vss, caught) ==
    [can_id |-> can_id, found |-> found, signals |-> signals, mapped |-> mapped,
     vss |-> vss, saved_msg |-> saved_msg, saved_vss |-> saved_vss, caught |-> caught]

\* The body that process_zmq_message and process_can_message share: decode,
\* save the message, map, save the samples if there are any.  The result is
\* the manager, the rows and the account of the message.
HandleMessage(d, m, st, can_id, data, raises, msg_ok, vss_ok) ==
    LET dec == dbc_decode_message(d, can_id, data, raises)
        s1 == save_can_message(st, dec.msg, msg_ok)
        vss_signals == map_can_to_vss(m, dec.msg)
        s2 == IF vss_signals # <<>>
              THEN save_vss_signals(s1.store, vss_signals, vss_ok)
              ELSE [store |-> s1.store, raised |-> FALSE]
    IN IF ~dec.found
       THEN [dbc |-> dec.dbc, store |-> st,
             entry |-> Handled(can_id, FALSE, <<>>, FALSE, <<>>, FALSE, FALSE, FALSE)]
       ELSE IF s1.raised
       THEN [dbc |-> dec.dbc, store |-> s1.store,
             entry |-> Handled(can_id, TRUE, dec.msg.signals, FALSE, <<>>, FALSE, FALSE, TRUE)]
       ELSE [dbc |-> dec.dbc, store |-> s2.store,
             entry |-> Handled(can_id, TRUE, dec.msg.signals, TRUE, vss_signals,
                               msg_ok, vss_signals # <<>> /\ vss_ok /\ ~s2.raised,
                               s2.raised)]

InitZStats == [messages_received |-> 0, messages_decoded |-> 0,
               vss_signals_mapped |-> 0, errors |-> 0]

\* No zonal controller is constructed in this run.
NoZonal ==
    /\ dbc = [source |-> "none", ids |-> {}, message_cache |-> {}, warnings |-> <<>>]
    /\ mappings = NoMappings
    /\ store = NoRows
    /\ zonal = [pc |-> "off", dbc_path |-> "unavailable",
                mapping_config |-> MappingFile("absent", NoMappings),
                inbox |-> <<>>, log |-> <<>>, stats |-> InitZStats]

\* ZonalController.__init__: the database is loaded or made up, the
\* mappings are loaded, the SQLite database is set up.
ZonalConstruct ==
    /\ zonal.pc = "new"
    /\ dbc' = load_database(zonal.dbc_path)
    /\ mappings' = load_mappings(zonal.mapping_config)
    /\ store' = NoRows
    /\ zonal' = [zonal EXCEPT !.pc = "running"]
    /\ UNCHANGED notZonalVars

\* run's loop receives a message from the CAN bus and calls
\* process_can_message, which keeps no statistics.
ProcessCanMessage ==
    /\ zonal.pc = "running"
    /\ zonal.inbox # <<>>
    /\ \E raises \in BOOLEAN, msg_ok \in BOOLEAN, vss_ok \in BOOLEAN :
          LET can_msg == Head(zonal.inbox)
              r == HandleMessage(dbc, mappings, store, can_msg.arbitration_id,
                                 can_msg.data, raises, msg_ok, vss_ok)
          IN /\ dbc' = r.dbc
             /\ store' = r.store
             /\ zonal' = [zonal EXCEPT !.inbox = Tail(@),
                                       !.log = Append(@, r.entry)]
    /\ UNCHANGED mappings
    /\ UNCHANGED notZonalVars

\* process_zmq_message on the same frame as the publisher sends it, with
\* its statistics.
ProcessZmqMessage ==
    /\ zonal.pc = "running"
    /\ zonal.inbox # <<>>
    /\ \E raises \in BOOLEAN, msg_ok \in BOOLEAN, vss_ok \in BOOLEAN :
          LET can_msg == Head(zonal.inbox)
              r == HandleMessage(dbc, mappings, store, can_msg.arbitration_id,
                                 can_msg.data, raises, msg_ok, vss_ok)
          IN /\ dbc' = r.dbc
             /\ store' = r.store
             /\ zonal' = [zonal EXCEPT
                   !.inbox = Tail(@),
                   !.log = Append(@, r.entry),
                   !.stats = [@ EXCEPT
                       !.messages_received = @ + 1,
                       !.messages_decoded = @ + (IF r.entry.found THEN 1 ELSE 0),
                       !.vss_signals_mapped = @ + Len(r.entry.vss),
                       !.errors = @ + (IF r.entry.caught THEN 1 ELSE 0)]]
    /\ UNCHANGED mappings
    /\ UNCHANGED notZonalVars

InitPeers == InitBridge /\ NoCodec /\ launched = "none" /\ NoLoops /\ NoZonal /\ NoRace

(* ------------------------------ specifications ------------------------ *)
\* The steps of the handler thread of connection c, but for the read of data.
HandlerSteps(c) ==
    \/ HandleClientStart(c)
    \/ LoopTest(c)
    \/ RecvTimeout(c)
    \/ RecvEOF(c)
    \/ RecvReset(c)
    \/ RecvError(c)
    \/ ProcessIncoming(c)
    \/ ForwardEvict(c)
    \/ ForwardReput(c)

\* The read sizes that end a read at the end of a line.
LineEnds(bs) == {n \in 1..Len(bs) : bs[n] = NL}

CountNL(bs) == Cardinality(LineEnds(bs))

RECURSIVE SumNL(_, _)
SumNL(w, k) == IF k = 0 THEN 0 ELSE CountNL(w[k]) + SumNL(w, k - 1)

\* Spec: the server with NumConns concurrent clients that send MaxMsgs lines
\* altogether, accepted or rejected envelopes, read in whole lines.  The
\* handlers are alike, so the clients are numbered by decreasing line count.
ServerMsgs == {MsgValid, MsgBadDlc}
ServerStreams ==
    {w \in [Conns -> UNION {StreamsOf(ServerMsgs, k) : k \in 0..MaxMsgs}] :
        /\ SumNL(w, NumConns) = MaxMsgs
        /\ \A c \in Conns : c + 1 \in Conns => CountNL(w[c]) >= CountNL(w[c + 1])}

NoCall ==
    /\ arg = EmptyObject
    /\ ret = "none"

Init == InitServer(ServerStreams, QueueCap) /\ NoCall /\ InitPeers

Next ==
    \/ Start
    \/ Stop
    \/ MainFinally
    \/ \E c \in Conns : Accept(c)
    \/ \E c \in Conns : HandlerSteps(c)
    \/ \E c \in Conns : \E n \in LineEnds(wire[c]) : RecvData(c, n)

Spec == Init /\ [][Next]_vars

\* SpecSeq: one client that sends MaxSeqMsgs lines, accepted or rejected
\* envelopes, read in whole lines by the only handler.
OnlyFirst(streams) == {[c \in Conns |-> IF c = 1 THEN s ELSE <<>>] : s \in streams}

InitSeq ==
    InitServer(OnlyFirst(StreamsOf(ServerMsgs, MaxSeqMsgs)), SeqCap) /\ NoCall /\ InitPeers

NextSeq ==
    \/ Start
    \/ Stop
    \/ Accept(1)
    \/ HandlerSteps(1)
    \/ \E n \in LineEnds(wire[1]) : RecvData(1, n)

SpecSeq == InitSeq /\ [][NextSeq]_vars

\* SpecFramer: one client that sends at most MaxFramerLines lines, padded,
\* blank, malformed or with a two-byte character, and possibly the start of
\* one more line, read in pieces of any size.
MsgAccent == <<"{", U_E9, "}">>
MsgOpen == <<"{">>
MsgPaddedNumber == <<" ", "7", "\r">>
FramerMsgs == {MsgAccent, MsgValid, MsgOpen, MsgPaddedNumber, MsgBlank, MsgEmpty}
FramerTails == {<<>>, MsgOpen}
FramerStreams ==
    {s \o t : s \in UNION {StreamsOf(FramerMsgs, k) : k \in 1..MaxFramerLines},
              t \in FramerTails}

InitFramer == InitServer(OnlyFirst(FramerStreams), QueueCap) /\ NoCall /\ InitPeers

NextFramer ==
    \/ Start
    \/ Stop
    \/ Accept(1)
    \/ HandlerSteps(1)
    \/ \E n \in 1..Len(wire[1]) : RecvData(1, n)

SpecFramer == InitFramer /\ [][NextFramer]_vars

\* SpecValidate: validate_message called once on an envelope.
CanIdValues == {JAbsent, JInt(-1), JInt(0), JInt(256), JInt(2047), JInt(2048),
                JStr(<<"x">>)}
DlcValues == {JAbsent, JInt(-1), JInt(0), JInt(8), JInt(9), JStr(<<"8">>)}
CanDataValues == {JAbsent, JList(Payload7), JList(Payload8), JList(Payload9),
                  JStr(<<"a", "b", "c", "d", "e", "f", "g", "h">>), JInt(8),
                  JList(<<>>)}
Envelopes ==
    {[can_id |-> i, dlc |-> d, can_data |-> p, schemaTag |-> JAbsent,
      source |-> JAbsent] :
        i \in CanIdValues, d \in DlcValues, p \in CanDataValues}

InitValidate ==
    /\ InitServer(OnlyFirst({<<>>}), QueueCap)
    /\ arg \in Envelopes
    /\ ret = "none"
    /\ InitPeers

CallValidate ==
    /\ ret = "none"
    /\ ret' = validate_message(arg).ret
    /\ pstats' = CountValidation(pstats, validate_message(arg))
    /\ UNCHANGED <<mainpc, running, client_connected, publisher_closed, can_shutdown,
                   stats, clock, message_queue, queue_maxsize, published, can_sent,
                   pc, exit, sent, wire, buffer, pending, cur, arg>>
    /\ UNCHANGED peerVars

NextValidate == CallValidate

SpecValidate == InitValidate /\ [][NextValidate]_vars

(* ------------------------------ reference definitions ---------------- *)
Range(s) == {s[i] : i \in 1..Len(s)}

\* An envelope with the three fields present, the identifier in 0..0x7FF, the
\* declared length in 0..8 and a payload of length 8.
WellFormed(e) ==
    /\ e.can_id.t = "int" /\ e.can_id.n \in 0..2047
    /\ e.dlc.t = "int" /\ e.dlc.n \in 0..8
    /\ e.can_data.t \in {"str", "list"} /\ Len(e.can_data.l) = 8

\* The positions of the newlines of a text.
NLs(t) == {i \in 1..Len(t) : t[i] = NL}

\* The newline-terminated segments of a text, in order: the k-th one lies
\* between the (k-1)-th and the k-th newline.
Segments(t) ==
    LET nls == NLs(t)
        nth(k) == IF k = 0 THEN 0
                  ELSE CHOOSE p \in nls : Cardinality({q \in nls : q <= p}) = k
    IN [k \in 1..Cardinality(nls) |-> SubSeq(t, nth(k - 1) + 1, nth(k) - 1)]

\* What follows the last newline of a text.
Residual(t) ==
    LET nls == NLs(t)
    IN IF nls = {} THEN t
       ELSE SubSeq(t, (CHOOSE p \in nls : \A q \in nls : q <= p) + 1, Len(t))

\* A text without its leading and trailing white space.
Inked(t) == {i \in 1..Len(t) : ~IsSpace(t[i])}
Trimmed(t) ==
    LET ink == Inked(t)
    IN IF ink = {} THEN <<>>
       ELSE SubSeq(t, CHOOSE i \in ink : \A j \in ink : i <= j,
                      CHOOSE i \in ink : \A j \in ink : j <= i)

NotEmpty(t) == t # <<>>
TrimmedSegments(t) ==
    LET segs == Segments(t) IN [k \in 1..Len(segs) |-> Trimmed(segs[k])]

\* The last n elements of a sequence.
LastN(s, n) == SubSeq(s, (IF Len(s) > n THEN Len(s) - n ELSE 0) + 1, Len(s))

\* A step in which the handler of connection c reads bytes, and the bytes read.
ReadStep(c) == wire'[c] # wire[c]
ReadBytes(c) == SubSeq(wire[c], 1, Len(wire[c]) - Len(wire'[c]))

\* A byte stream that is one line holding one JSON object.
IsOneJsonLine(bs) ==
    /\ Len(bs) >= 1
    /\ NLs(bs) = {Len(bs)}
    /\ IsObjectText(decode(SubSeq(bs, 1, Len(bs) - 1)))

\* A step that ends a call of forward_message that found the queue full.
ForwardReturns(c) == pc[c] \in {"evict", "reput"} /\ pc'[c] \in {"msgs", "loop"}

\* A step of process_incoming_message on a message that is not JSON.
MalformedStep(c) ==
    /\ pc[c] = "msgs"
    /\ json_loads(Head(pending[c])).kind = "JSONDecodeError"
    /\ <<pc[c], pending[c], stats>> # <<pc'[c], pending'[c], stats'>>

\* A step of process_incoming_message on a message that is JSON but is not
\* accepted: validate_message returns False, or the processing raises.
RejectedStep(c) ==
    /\ pc[c] = "msgs"
    /\ LET parsed == json_loads(Head(pending[c]))
       IN \/ parsed.kind = "number"
          \/ parsed.kind = "object" /\ validate_message(parsed.obj).ret # "True"
    /\ <<pc[c], pending[c]>> # <<pc'[c], pending'[c]>>

(* ------------------------------ claims -------------------------------- *)
\* C1: every frame on the CAN bus, on the publisher or in the backup queue is
\* an envelope that validate_message accepts, marked validated, and no more
\* frames have left than envelopes were accepted.
C1_OnlyValidatedFramesLeave ==
    /\ \A f \in Range(published) \cup Range(message_queue) :
          f.validated /\ WellFormed(f)
    /\ \A m \in Range(can_sent) :
          m.arbitration_id \in 0..2047 /\ m.dlc \in 0..8 /\ Len(m.data) = m.dlc
    /\ Len(published) <= clock
    /\ Len(can_sent) <= clock
    /\ clock + pstats.invalid_ids + pstats.invalid_data <= pstats.total_received

\* C1 witness: an envelope was rejected and another went to all three sinks.
C1_Witness ==
    /\ pstats.total_received > clock
    /\ Len(published) >= 1
    /\ Len(can_sent) >= 1
    /\ Len(message_queue) >= 1

\* C2: validate_message returns True exactly for the envelopes with the three
\* fields present, 0 <= can_id <= 0x7FF, 0 <= dlc <= 8 and len(can_data) = 8;
\* can_id 0x800 and a payload of length 7 are not accepted.
C2_ValidateAcceptsExactlyWellFormed ==
    ret # "none" =>
        /\ (ret = "True") <=> WellFormed(arg)
        /\ arg.can_id = JInt(2048) => ret # "True"
        /\ arg.can_data = JList(Payload7) => ret # "True"

\* C2 witness: calls that accepted a boundary envelope exist, here identifier
\* 0x7FF with declared length 0.
C2_Witness ==
    /\ ret = "True"
    /\ arg.can_id = JInt(2047)
    /\ arg.dlc = JInt(0)

\* C3: every rejection by validate_message increments a statistics counter.
C3_EveryRejectionCounted ==
    ret = "False" => pstats.invalid_ids + pstats.invalid_data = 1

\* C4: a call of forward_message that found the queue full returns with its
\* frame in the backup queue.
C4_NewFrameNeverRejected ==
    [][\A c \in Conns : ForwardReturns(c) => cur[c] \in Range(message_queue')]_vars

\* C5: the backup queue never holds more frames than its capacity.
C5_QueueWithinCapacity == Len(message_queue) <= queue_maxsize

\* C5 witness: the queue is at capacity after more frames than that were
\* published.
C5_Witness ==
    /\ Len(message_queue) = queue_maxsize
    /\ Len(published) > queue_maxsize

\* C6: frames published one after another are numbered in arrival order and,
\* between two calls of forward_message, the queue holds the last
\* queue_maxsize of them in that order.
C6_QueueHoldsLastFrames ==
    /\ \A i \in 1..Len(published) : published[i].timestamp_ns = i
    /\ pc[1] \notin {"evict", "reput"} =>
          message_queue = LastN(published, queue_maxsize)

\* C6 witness: two frames more than the capacity were published one after
\* another, and the queue holds the frames from the third on.
C6_Witness ==
    /\ pc[1] \notin {"evict", "reput"}
    /\ Len(published) = queue_maxsize + 2
    /\ Len(message_queue) = queue_maxsize
    /\ queue_maxsize >= 2
    /\ message_queue[1].timestamp_ns = 3
    /\ message_queue[queue_maxsize].timestamp_ns = queue_maxsize + 2

\* C7: a handler leaves its read loop only on its own EOF or error or after
\* the process-wide stop.
C7_ConnectionsIndependent ==
    \A c \in Conns : exit[c] = "condition" => mainpc = "stopped"

\* C8 (as stated): a read yields exactly the non-empty newline-terminated
\* segments of the accumulated buffer, in order, and keeps what follows the
\* last newline.
C8_MessagesAreSegments ==
    [][\A c \in Conns : ReadStep(c) =>
          LET acc == buffer[c] \o decode(ReadBytes(c))
          IN /\ pending'[c] = SelectSeq(Segments(acc), NotEmpty)
             /\ buffer'[c] = Residual(acc)]_vars

\* C8 (amended): a read yields the newline-terminated segments of the
\* accumulated buffer with their leading and trailing white space removed,
\* those that are then empty left out, in order; it keeps what follows the
\* last newline, which has no newline, and no other step changes the buffer.
C8_MessagesAreTrimmedSegments ==
    [][\A c \in Conns :
          /\ ReadStep(c) =>
                LET acc == buffer[c] \o decode(ReadBytes(c))
                IN /\ pending'[c] = SelectSeq(TrimmedSegments(acc), NotEmpty)
                   /\ buffer'[c] = Residual(acc)
                   /\ NLs(buffer'[c]) = {}
          /\ ~ReadStep(c) => buffer'[c] = buffer[c]]_vars

\* C8 witness: one read gave two messages and left an incomplete tail, on a
\* stream with a padded line.
C8_Witness ==
    /\ pc[1] = "msgs"
    /\ Len(pending[1]) = 2
    /\ pending[1][1] = <<"7">>
    /\ buffer[1] = MsgOpen

\* C9: a stream of one JSON message yields no message while it is partly
\* read, and the message itself with an empty remainder once it is read.
C9_SplitMessageYieldedIntact ==
    [][(IsOneJsonLine(sent[1]) /\ ReadStep(1)) =>
          IF wire'[1] # <<>>
          THEN pending'[1] = <<>>
          ELSE /\ pending'[1] = <<decode(SubSeq(sent[1], 1, Len(sent[1]) - 1))>>
               /\ buffer'[1] = <<>>]_vars

\* C10: a message that is not JSON adds one to the error counter and nothing
\* else: the buffer, the sinks and the other counters stay as they are, the
\* connection stays open and the loop moves on to the next message.
C10_MalformedMessageDropped ==
    [][\A c \in Conns : MalformedStep(c) =>
          /\ stats' = [stats EXCEPT !.errors = @ + 1]
          /\ buffer' = buffer
          /\ pending'[c] = Tail(pending[c])
          /\ pc'[c] = (IF pending'[c] = <<>> THEN "loop" ELSE "msgs")
          /\ exit' = exit
          /\ <<published, can_sent, message_queue, pstats>>
                = <<published', can_sent', message_queue', pstats'>>]_vars

\* C10 witness: a malformed line was counted and the envelope that followed
\* it in the stream was published.
C10_Witness ==
    /\ sent[1] = Line(MsgOpen) \o Line(MsgValid)
    /\ stats.errors = 1
    /\ Len(published) = 1

\* C11: a message that validation rejects, or whose processing raises, leaves
\* the connection open and its read loop running: the handler goes on to the
\* next message of the read, or back to the loop test after the last one, and
\* the buffer and the bytes still to be read stay as they are.
C11_RejectionKeepsConnection ==
    [][\A c \in Conns : RejectedStep(c) =>
          /\ exit'[c] = "none"
          /\ pending'[c] = Tail(pending[c])
          /\ pc'[c] = (IF pending'[c] = <<>> THEN "loop" ELSE "msgs")
          /\ buffer' = buffer
          /\ wire' = wire
          /\ client_connected' = client_connected]_vars

\* C11 witness: the processing of the first line raised, the connection is
\* still open and the envelope of the second line was published.
C11_Witness ==
    /\ sent[1] = Line(MsgPaddedNumber) \o Line(MsgValid)
    /\ mainpc = "accept"
    /\ pc[1] = "loop"
    /\ stats.errors = 1
    /\ Len(published) = 1

(* ------------------------------ order on a connection ----------------- *)
\* SpecOrder: two concurrent clients.  The first sends MaxOrderMsgs lines,
\* accepted envelopes of two kinds and rejected ones, all with identifier
\* 0x100; the second sends one accepted envelope with identifier 0x101.  The
\* identifier tells the frames of the two connections apart in the sinks.
MaxOrderMsgs == 2
MsgTagged == <<"{", "i", "d", "p", U_E9, "S", "}">>
MsgOther == <<"{", "j", "d", "p", "}">>
OrderConns == {1, 2}
OrderMsgs == {MsgValid, MsgTagged, MsgBadDlc}
OrderId(c) == IF c = 1 THEN 256 ELSE 257
OrderStreams ==
    {[c \in Conns |-> IF c = 1 THEN s ELSE IF c = 2 THEN Line(MsgOther) ELSE <<>>] :
        s \in StreamsOf(OrderMsgs, MaxOrderMsgs)}

InitOrder == InitServer(OrderStreams, QueueCap) /\ NoCall /\ InitPeers

NextOrder ==
    \/ Start
    \/ Stop
    \/ \E c \in OrderConns : Accept(c)
    \/ \E c \in OrderConns : HandlerSteps(c)
    \/ \E c \in OrderConns : \E n \in LineEnds(wire[c]) : RecvData(c, n)

SpecOrder == InitOrder /\ [][NextOrder]_vars

\* The bytes connection c has read, and the messages in them.
Consumed(c) == SubSeq(sent[c], 1, Len(sent[c]) - Len(wire[c]))
ReceivedMsgs(c) == SelectSeq(TrimmedSegments(decode(Consumed(c))), NotEmpty)

\* The messages of connection c that process_incoming_message has taken up,
\* in the order of receipt.
Processed(c) ==
    LET msgs == ReceivedMsgs(c)
        inForward == IF pc[c] \in {"evict", "reput"} THEN 1 ELSE 0
    IN SubSeq(msgs, 1, Len(msgs) - Len(pending[c]) + inForward)

\* The members of an envelope, received or published, that process_message
\* leaves as they are.
EnvelopeOf(f) ==
    [can_id |-> f.can_id, dlc |-> f.dlc, can_data |-> f.can_data,
     schemaTag |-> f.schemaTag]

IsAccepted(m) == json_loads(m).kind = "object" /\ WellFormed(json_loads(m).obj)

\* The envelopes of the accepted messages among those, in the order of receipt.
AcceptedEnvelopes(c) ==
    LET acc == SelectSeq(Processed(c), IsAccepted)
    IN [k \in 1..Len(acc) |-> EnvelopeOf(json_loads(acc[k]).obj)]

\* The envelopes of connection c on the publisher, and its messages on the
\* CAN bus, in the order they were sent.
PublishedOf(c) ==
    LET mine(f) == f.can_id.n = OrderId(c)
        fs == SelectSeq(published, mine)
    IN [k \in 1..Len(fs) |-> EnvelopeOf(fs[k])]
CanSentOf(c) ==
    LET mine(m) == m.arbitration_id = OrderId(c)
    IN SelectSeq(can_sent, mine)

IsPrefix(a, b) == Len(a) <= Len(b) /\ a = SubSeq(b, 1, Len(a))

\* C12: on each connection the frames on the publisher and on the CAN bus
\* are the accepted envelopes taken up so far, in the order of receipt (up
\* to the stop of the server, after which nothing more is sent), and the
\* frames are stamped in the order they are published.
C12_ForwardedInReceiptOrder ==
    /\ \A c \in OrderConns :
          LET envs == AcceptedEnvelopes(c)
              cans == [k \in 1..Len(envs) |-> CanMessage(envs[k])]
          IN /\ IsPrefix(PublishedOf(c), envs)
             /\ IsPrefix(CanSentOf(c), cans)
             /\ mainpc # "stopped" => PublishedOf(c) = envs /\ CanSentOf(c) = cans
    /\ \A i, j \in 1..Len(published) :
          i < j => published[i].timestamp_ns < published[j].timestamp_ns

\* C12 witness: the first connection's two different envelopes came out in
\* the order of receipt, the other connection's frame between them.
C12_Witness ==
    /\ Len(published) = 3
    /\ EnvelopeOf(published[1]) = EnvelopeOf(json_loads(MsgTagged).obj)
    /\ published[2].can_id.n = OrderId(2)
    /\ EnvelopeOf(published[3]) = EnvelopeOf(json_loads(MsgValid).obj)
    /\ Len(can_sent) = 3

\* The frames of connection c on the publisher, and the objects of its
\* accepted messages, both whole and in order.
PublishedFramesOf(c) ==
    LET mine(f) == f.can_id.n = OrderId(c)
    IN SelectSeq(published, mine)
AcceptedObjects(c) ==
    LET acc == SelectSeq(Processed(c), IsAccepted)
    IN [k \in 1..Len(acc) |-> json_loads(acc[k]).obj]

\* C28: the frames published for a connection are, one for one and member
\* for member, the envelopes accepted from it: every member the envelope has
\* is in the published frame with the same value.
C28_PublishedIsReceived ==
    \A c \in OrderConns :
        /\ Len(PublishedFramesOf(c)) <= Len(AcceptedObjects(c))
        /\ \A k \in 1..Len(PublishedFramesOf(c)) :
              \A member \in DOMAIN EmptyObject :
                  AcceptedObjects(c)[k][member].t # "absent" =>
                      PublishedFramesOf(c)[k][member] = AcceptedObjects(c)[k][member]

(* ------------------------------ source side --------------------------- *)
\* SpecBridge: one run of the source side through main, with a server that
\* is reachable or not at each connect and writes that succeed or fail.
InitBridgeRun == InitServer(OnlyFirst({<<>>}), QueueCap) /\ NoCall /\ InitPeers

NextBridge ==
    \/ InitializeLoad
    \/ InitializeConnect
    \/ RunStart
    \/ RunLoopTest
    \/ RunStep
    \/ SendData
    \/ CountTick
    \/ Interrupt
    \/ BridgeStop

SpecBridge == InitBridgeRun /\ [][NextBridge]_vars

\* A step that is a call of send_data.
SendStep == bpc = "send" /\ bstats'.offered = bstats.offered + 1

\* C13: reconnect_attempts never exceeds max_reconnect_attempts; a connect
\* that succeeds sets it to 0; a send_data with the attempts used up returns
\* False to the loop, which goes on.
C13_ReconnectionCapped ==
    /\ [](reconnect_attempts \in 0..max_reconnect_attempts)
    /\ [][/\ (connects' # connects /\ connected') => reconnect_attempts' = 0
          /\ (SendStep /\ ~connected
                 /\ reconnect_attempts = max_reconnect_attempts) =>
                (send_ret'.ret = "False" /\ bpc' = "count")]_vars

\* C13 witness: after five failed reconnections a send_data returned False
\* with the attempts used up, and the loop is at its next iteration.
C13_Witness ==
    /\ bpc = "loop"
    /\ reconnect_attempts = max_reconnect_attempts
    /\ ~connected
    /\ connects = max_reconnect_attempts + 1
    /\ bstats.messages_failed = max_reconnect_attempts + 1

\* A step in which send_data has written and the write has raised.
WriteFailed == SendStep /\ send_ret'.write \in WriteOutcomes \ {"ok"}

\* C14: after a send_data whose write failed, the client is not connected.
C14_SendFailureDisconnects == [][WriteFailed => ~connected']_vars

\* The run loop is between two iterations.
BetweenTicks == bpc = "loop"

\* C15: a send_data that fails, and a connect that fails in initialize,
\* leave the loop running; every iteration begun and finished has encoded
\* one frame, offered it to send_data once, written it at most once, and
\* added one to exactly one of messages_sent and messages_failed.
C15_TransportFailureNotFatal ==
    /\ [](BetweenTicks =>
            /\ bstats.messages_sent + bstats.messages_failed = ticks
            /\ bstats.encoded = ticks
            /\ bstats.offered = ticks
            /\ bstats.written <= bstats.offered)
    /\ [][/\ SendStep => bpc' = "count"
          /\ (bpc = "count" /\ bpc' = "loop") =>
                /\ brunning'
                /\ IF send_ret.ret = "True"
                   THEN bstats' = [bstats EXCEPT !.messages_sent = @ + 1]
                   ELSE bstats' = [bstats EXCEPT !.messages_failed = @ + 1]
          /\ (bpc = "initializing" /\ bpc' # bpc) => bpc' = "ready"]_vars

\* C15 witness: the server was never reachable, the attempts are used up and
\* the loop has finished every iteration in degraded mode, nothing written.
C15_Witness ==
    /\ BetweenTicks
    /\ brunning
    /\ ticks = MaxTicks
    /\ bstats.messages_failed = MaxTicks
    /\ bstats.written = 0
    /\ reconnect_attempts = max_reconnect_attempts

\* run_simulation has returned or an exception has left it.
RunEnded == bpc \in {"stopped", "escaped"}

\* C17: once the run loop has been left, for whatever reason, and stop() has
\* run, running is False and the transport is closed.
C17_StopClosesTransport ==
    RunEnded => ~brunning /\ ~connected

(* ------------------------------ encode and decode --------------------- *)
\* SpecCodec: encode is called on a dict of signal values, in range, out of
\* range or absent, and the frame is decoded by the simple zonal controller.
LampValues == {0, 1}
ByteValues == {NoSignal, Signal(-1), Signal(0), Signal(50), Signal(255), Signal(256)}
SpeedValues == {NoSignal, Signal(-7), Signal(0), Signal(60), Signal(255), Signal(300)}
WordValues == {NoSignal, Signal(-1), Signal(0), Signal(255), Signal(256),
               Signal(4660), Signal(65535), Signal(65536), Signal(70000)}
FmuInputs ==
    {[headlamp |-> h, tailLamp |-> t, brakeLamp |-> Signal(b),
      indicator_left |-> Signal(l), indicator_right |-> Signal(r),
      light_level |-> ll, vehicle_speed |-> vs, ambient |-> a] :
        h \in {NoSignal, Signal(0), Signal(1)},
        t \in {NoSignal, Signal(0), Signal(1)}, b \in LampValues, l \in LampValues, r \in LampValues,
        ll \in ByteValues, vs \in SpeedValues, a \in WordValues}
    \cup {NoFmuData}

InitCodec ==
    /\ InitServer(OnlyFirst({<<>>}), QueueCap)
    /\ NoCall
    /\ InitBridge
    /\ launched = "none"
    /\ NoLoops
    /\ NoRace
    /\ NoZonal
    /\ fmu_data \in FmuInputs
    /\ can_frame = EmptyObject
    /\ decoded = NotDecoded

NextCodec == Encode \/ SimpleDecode \/ Deliver

SpecCodec == InitCodec /\ [][NextCodec]_vars

\* The signal of the decoded dict that carries a signal given to encode.
DecodedName(name) ==
    CASE name = "headlamp" -> "headLamp"
      [] name = "tailLamp" -> "tailLamp"
      [] name = "brakeLamp" -> "brakeLamp"
      [] name = "indicator_left" -> "indicatorLeft"
      [] name = "indicator_right" -> "indicatorRight"
      [] name = "light_level" -> "lightLevel"
      [] name = "vehicle_speed" -> "vehicleSpeed"
      [] OTHER -> "ambient"

\* The representable range of each signal.
Lo(name) == 0
Hi(name) ==
    CASE name \in {"light_level", "vehicle_speed"} -> 255
      [] name = "ambient" -> 65535
      [] OTHER -> 1
InRange(name, s) == s.p /\ s.v \in Lo(name)..Hi(name)

\* A frame was encoded from fmu_data and decoded.
RoundTripDone == decoded.path = "simple"

\* C18: every signal given to encode with a value in its range comes back
\* from the decoder with that value; ambient comes back as
\* (byte3 << 8) | byte4 of the payload.
C18_RoundTrip ==
    RoundTripDone =>
        /\ \A name \in DOMAIN fmu_data :
              InRange(name, fmu_data[name]) =>
                  decoded.sig[DecodedName(name)] = fmu_data[name]
        /\ decoded.sig.ambient =
              Signal(can_frame.can_data.l[4] * 256 + can_frame.can_data.l[5])

\* C18 witness: a round trip of values in range that fill both bytes of
\* ambient and set lamp bits.
C18_Witness ==
    /\ RoundTripDone
    /\ \A name \in DOMAIN fmu_data : InRange(name, fmu_data[name])
    /\ fmu_data.ambient = Signal(4660)
    /\ fmu_data.headlamp = Signal(1)
    /\ fmu_data.indicator_right = Signal(1)
    /\ fmu_data.light_level = Signal(50)
    /\ decoded.sig.ambient = Signal(4660)

\* The value of a range nearest to n.
Clamped(name, n) == Max(Lo(name), Min(Hi(name), n))

NumericSignals == {"light_level", "vehicle_speed", "ambient"}

\* C19: a numeric signal given to encode with a value outside its range
\* comes back from the decoder as the nearest bound of the range.
C19_OutOfRangeClamped ==
    RoundTripDone =>
        \A name \in NumericSignals :
            (fmu_data[name].p /\ ~InRange(name, fmu_data[name])) =>
                decoded.sig[DecodedName(name)] =
                    Signal(Clamped(name, fmu_data[name].v))

(* ------------------------------ short frames -------------------------- *)
\* SpecDecode: an envelope the server accepted reaches the zonal controller
\* over the pub/sub path or over the CAN bus and is decoded there.
DecodePayloads ==
    {<<1, 50, 60, 0, 0, 0, 0, 0>>,
     <<31, 255, 255, 255, 255, 255, 255, 255>>,
     <<0, 0, 0, 0, 0, 0, 0, 0>>,
     <<2, 1, 2, 3, 4, 5, 6, 7>>,
     <<21, 128, 7, 9, 9, 9, 9, 9>>,
     <<234, 0, 255, 0, 0, 0, 0, 1>>}
DecodeFrames ==
    {e \in {[EmptyObject EXCEPT !.can_id = JInt(id), !.dlc = JInt(n),
                                !.can_data = JList(pl)] :
                id \in {256, 257}, n \in 0..8, pl \in DecodePayloads} :
        validate_message(e).ret = "True"}

InitDecode ==
    /\ InitServer(OnlyFirst({<<>>}), QueueCap)
    /\ NoCall
    /\ InitBridge
    /\ launched = "none"
    /\ NoLoops
    /\ NoRace
    /\ NoZonal
    /\ fmu_data = NoFmuData
    /\ can_frame \in DecodeFrames
    /\ decoded = NotDecoded

NextDecode == ZmqDecode \/ CanDecode \/ FallbackDecode

SpecDecode == InitDecode /\ [][NextDecode]_vars

\* The signals of the database whose bits lie partly or wholly beyond the
\* first n bytes.
BeyondLength(n) ==
    {DbcSignals[k].name : k \in {j \in DOMAIN DbcSignals :
        DbcSignals[j].start + DbcSignals[j].length > n * 8}}

\* C20: when a frame of declared length n < 8 is decoded, on the pub/sub
\* path or on the CAN path, no signal with bits beyond n*8 is in the result.
C20_ShortFrameOmitsSignals ==
    (decoded.path \in {"zmq", "can"} /\ decoded.found /\ can_frame.dlc.n < 8) =>
        \A name \in BeyondLength(can_frame.dlc.n) : ~decoded.sig[name].p

\* C21: for every payload of identifier 0x100 the manual decode gives the
\* signals of the declarative layout, by name and by value, a boolean as
\* the value of its bit.
C21_ManualDecodeMatchesLayout ==
    (decoded.path = "fallback" /\ decoded.found) =>
        /\ decoded.sig = process_can_message(CanMessage(can_frame)).sig
        /\ {name \in DOMAIN decoded.sig : decoded.sig[name].p} = DbcNames

\* C21 witness: a full frame with lamp bits set and clear and with bits of
\* byte 0 that belong to no signal is decoded by the fallback.
C21_Witness ==
    /\ decoded.path = "fallback"
    /\ decoded.found
    /\ can_frame.dlc.n = 8
    /\ can_frame.can_data.l[1] = 234
    /\ decoded.sig.tailLamp = Signal(1)
    /\ decoded.sig.brakeLamp = Signal(0)
    /\ decoded.sig.vehicleSpeed = Signal(255)

(* ------------------------------ stopping ------------------------------ *)
\* SpecStop: one of the processes is launched and runs until it is stopped:
\* the socket server with a client on every connection, the source in mode
\* 'both' (run_simulation in a thread, run_with_kuksa in the main thread),
\* the simple zonal controller, or the CAN zonal controller.  The processes
\* share no memory, so a run follows one of them.
Processes == {"server", "source", "subscriber", "zonal"}

StopStreams == {[c \in Conns |-> Line(MsgValid)]}

\* The bus of the zonal controller carries the frame the server sends.
StopBus == {ReceivedMessage(256, Payload8)}

InitStop ==
    /\ InitServer(StopStreams, QueueCap)
    /\ NoCall
    /\ InitBridge
    /\ NoCodec
    /\ launched \in Processes
    /\ LoopsIdle(StopBus)
    /\ NoRace
    /\ NoZonal

\* The steps of the source's thread: KeyboardInterrupt is raised in the main
\* thread only.
ThreadSteps ==
    \/ InitializeLoad
    \/ InitializeConnect
    \/ RunStart
    \/ RunLoopTest
    \/ RunStep
    \/ SendData
    \/ CountTick
    \/ BridgeStop

KuksaSteps == KuksaLoad \/ KuksaConnect \/ KuksaStep \/ KuksaSend \/ KuksaSleep

SubSteps == SubRun \/ SubLoopTest \/ SubStop

RxSteps == RxLoopTest \/ RxRecv

ZpSteps == ZpLoopTest \/ ZpDrain \/ ZpCycle

NextStop ==
    \/ launched = "server" /\ Start
    \/ launched = "server" /\ Stop
    \/ launched = "server" /\ MainFinally
    \/ launched = "server" /\ \E c \in Conns : Accept(c)
    \/ launched = "server" /\ \E c \in Conns : HandlerSteps(c)
    \/ launched = "server" /\ \E c \in Conns : \E n \in LineEnds(wire[c]) : RecvData(c, n)
    \/ launched = "source" /\ InitializeLoad
    \/ launched = "source" /\ InitializeConnect
    \/ launched = "source" /\ RunStart
    \/ launched = "source" /\ RunLoopTest
    \/ launched = "source" /\ RunStep
    \/ launched = "source" /\ SendData
    \/ launched = "source" /\ CountTick
    \/ launched = "source" /\ BridgeStop
    \/ launched = "source" /\ KuksaLoad
    \/ launched = "source" /\ KuksaConnect
    \/ launched = "source" /\ KuksaStep
    \/ launched = "source" /\ KuksaSend
    \/ launched = "source" /\ KuksaSleep
    \/ launched = "source" /\ KuksaInterrupt
    \/ launched = "subscriber" /\ SubRun
    \/ launched = "subscriber" /\ SubLoopTest
    \/ launched = "subscriber" /\ SubRecv
    \/ launched = "subscriber" /\ SubInterrupt
    \/ launched = "subscriber" /\ SubStop
    \/ launched = "zonal" /\ ZcStart
    \/ launched = "zonal" /\ ZcStop
    \/ launched = "zonal" /\ RxLoopTest
    \/ launched = "zonal" /\ RxRecv
    \/ launched = "zonal" /\ ZpLoopTest
    \/ launched = "zonal" /\ ZpDrain
    \/ launched = "zonal" /\ ZpCycle

\* Every thread that can take a step of its own takes one; the arrival of
\* bytes, of a message or of an interrupt is not promised.
FairStop ==
    /\ \A c \in Conns : WF_vars(launched = "server" /\ HandlerSteps(c))
    /\ WF_vars(launched = "source" /\ ThreadSteps)
    /\ WF_vars(launched = "source" /\ KuksaSteps)
    /\ WF_vars(launched = "subscriber" /\ SubSteps)
    /\ WF_vars(launched = "zonal" /\ RxSteps)
    /\ WF_vars(launched = "zonal" /\ ZpSteps)

SpecStop == InitStop /\ [][NextStop]_vars /\ FairStop

\* running has been set to False in the launched process.
StopSignalled ==
    \/ launched = "server" /\ mainpc = "stopped"
    \/ launched = "source" /\ bpc \in {"stopped", "escaped"}
    \/ launched = "subscriber" /\ sub_pc = "exited"
    \/ launched = "zonal" /\ zc_pc = "stopped"

\* No loop of the launched process is running.
ServerLoopsExited == mainpc = "stopped" /\ \A c \in Conns : pc[c] \in {"idle", "closed"}
SourceLoopsExited == bpc \in {"stopped", "escaped"} /\ kpc = "done"
SubscriberLoopExited == sub_pc = "exited"
ZonalLoopsExited == rx_pc = "exited" /\ zp_pc = "exited"
LoopsExited ==
    \/ launched = "server" /\ ServerLoopsExited
    \/ launched = "source" /\ SourceLoopsExited
    \/ launched = "subscriber" /\ SubscriberLoopExited
    \/ launched = "zonal" /\ ZonalLoopsExited

\* C16: once running is False in a process, every loop of that process
\* eventually exits.
C16_StopReachesEveryLoop == StopSignalled ~> LoopsExited

(* ------------------------------ end to end ---------------------------- *)
\* The value encode stores for a signal: the integer, held to the range.
Encoded(name, s) == Signal(Clamped(name, s.v))

\* The frame of fmu_data went through the server to the simple zonal
\* controller.
Delivered == decoded.path = "pipeline"

\* C22: the frame encode makes of any values is accepted by the server,
\* and what the zonal controller decodes from the published frame is the
\* encoded headlamp, light_level and vehicle_speed (payload
\* [1,50,60,0,0,0,0,0] gives headLamp true, lightLevel 50, vehicleSpeed 60);
\* the mapper emits one Vehicle.Body.Lights.IsHighBeamOn, with the
\* headlamp's value.  No frame of encode is rejected.
C22_EndToEnd ==
    /\ decoded.path # "rejected"
    /\ Delivered =>
          /\ decoded.found
          /\ fmu_data.headlamp.p => decoded.sig.headLamp = fmu_data.headlamp
          /\ fmu_data.light_level.p =>
                decoded.sig.lightLevel = Encoded("light_level", fmu_data.light_level)
          /\ fmu_data.vehicle_speed.p =>
                decoded.sig.vehicleSpeed = Encoded("vehicle_speed", fmu_data.vehicle_speed)
          /\ \A name \in {"headlamp", "light_level", "vehicle_speed"} :
                InRange(name, fmu_data[name]) =>
                    decoded.sig[DecodedName(name)] = fmu_data[name]
          /\ can_frame.can_data.l = Payload8 =>
                /\ decoded.sig.headLamp = Signal(1)
                /\ decoded.sig.lightLevel = Signal(50)
                /\ decoded.sig.vehicleSpeed = Signal(60)
          /\ LET beams == SelectSeq(decoded.vss,
                              LAMBDA v : v.path = "Vehicle.Body.Lights.IsHighBeamOn")
             IN /\ Len(beams) = 1
                /\ fmu_data.headlamp.p => beams[1].value = fmu_data.headlamp.v

\* C22 witness: headlamp on, light_level 50 and vehicle_speed 60 arrive at
\* the zonal controller and the high beam is reported on.
C22_Witness ==
    /\ Delivered
    /\ fmu_data.headlamp = Signal(1)
    /\ fmu_data.light_level = Signal(50)
    /\ fmu_data.vehicle_speed = Signal(60)
    /\ can_frame.can_data.l = Payload8
    /\ decoded.sig.vehicleSpeed = Signal(60)
    /\ VSS("Vehicle.Body.Lights.IsHighBeamOn", 1) = decoded.vss[1]

(* ------------------------------ unused bits --------------------------- *)
\* encode has run on fmu_data.
Encoded8 == can_frame # EmptyObject /\ Len(can_frame.can_data.l) = 8

\* The bytes of the payload a signal of the input occupies, from 1, and for
\* a lamp the mask of its bit in byte 1.
SignalByte ==
    [headlamp |-> <<1>>, tailLamp |-> <<1>>, brakeLamp |-> <<1>>,
     indicator_left |-> <<1>>, indicator_right |-> <<1>>,
     light_level |-> <<2>>, vehicle_speed |-> <<3>>, ambient |-> <<4, 5>>]
SignalMask ==
    [headlamp |-> 1, tailLamp |-> 2, brakeLamp |-> 4,
     indicator_left |-> 8, indicator_right |-> 16,
     light_level |-> 255, vehicle_speed |-> 255, ambient |-> 255]

\* C29: in the payload encode returns, the bits of a signal that is not in
\* the input are zero, bits 5..7 of byte 0 and bytes 5..7 are zero, and the
\* payload of an empty input is eight zero bytes.
C29_UnusedBitsZero ==
    can_frame # EmptyObject =>
        /\ Encoded8
        /\ \A name \in DOMAIN fmu_data :
              ~fmu_data[name].p =>
                  \A k \in 1..Len(SignalByte[name]) :
                      BitAnd(can_frame.can_data.l[SignalByte[name][k]],
                             SignalMask[name]) = 0
        /\ BitAnd(can_frame.can_data.l[1], 224) = 0
        /\ \A k \in 6..8 : can_frame.can_data.l[k] = 0
        /\ fmu_data = NoFmuData =>
              can_frame.can_data.l = <<0, 0, 0, 0, 0, 0, 0, 0>>

\* C29 witness: encode of an input with no light_level, no tailLamp and the
\* other lamps on leaves byte 1 and bit 1 of byte 0 zero.
C29_Witness ==
    /\ Encoded8
    /\ ~fmu_data.light_level.p
    /\ ~fmu_data.tailLamp.p
    /\ fmu_data.headlamp = Signal(1)
    /\ fmu_data.brakeLamp = Signal(1)
    /\ fmu_data.ambient = Signal(65535)
    /\ can_frame.can_data.l = <<5 + 8 * fmu_data.indicator_left.v
                                   + 16 * fmu_data.indicator_right.v,
                                0, can_frame.can_data.l[3], 255, 255, 0, 0, 0>>

(* ------------------------------ the zonal controller's run ------------ *)
\* SpecZonal: a zonal controller is constructed with a signal database that
\* loads or does not and a mapping resource, and handles a sequence of
\* messages; each save may fail.
MaxZonalMsgs == 2

ZonalMsgs ==
    {[arbitration_id |-> 256, data |-> <<1, 80, 60, 0, 0, 0, 0, 0>>, dlc |-> 8],
     [arbitration_id |-> 257, data |-> <<1, 80, 60, 0, 0, 0, 0, 0>>, dlc |-> 8]}

\* A resource that redefines lightLevel of 0x100 with a conversion and
\* nothing else of 0x100, and one that adds doorOpen of 0x101.
FileLightLevel ==
    MappingFile("ok", 256 :> [lightLevel |-> Entry("Vehicle.Cabin.Light.Level", TRUE, 2, 1)])
FileDoor ==
    MappingFile("ok", 257 :> [doorOpen |-> Entry("Vehicle.Cabin.Door.IsOpen", FALSE, 1, 0)])
MappingFiles ==
    {MappingFile("absent", NoMappings), MappingFile("malformed", NoMappings),
     FileLightLevel, FileDoor}

InitZonal ==
    /\ InitServer(OnlyFirst({<<>>}), QueueCap)
    /\ NoCall
    /\ InitBridge
    /\ NoCodec
    /\ launched = "none"
    /\ NoLoops
    /\ NoRace
    /\ dbc = [source |-> "none", ids |-> {}, message_cache |-> {}, warnings |-> <<>>]
    /\ mappings = NoMappings
    /\ store = NoRows
    /\ \E path \in DbcPaths, file \in MappingFiles :
         \E box \in UNION {[1..n -> ZonalMsgs] : n \in 0..MaxZonalMsgs} :
             zonal = [pc |-> "new", dbc_path |-> path, mapping_config |-> file,
                      inbox |-> box, log |-> <<>>, stats |-> InitZStats]

NextZonal == ZonalConstruct \/ ProcessCanMessage \/ ProcessZmqMessage

SpecZonal == InitZonal /\ [][NextZonal]_vars

\* The signals of a decoded message that have an entry in the table in
\* effect.
Mapped(e) ==
    SelectSeq(e.signals,
              LAMBDA sg : e.can_id \in DOMAIN mappings
                          /\ sg.name \in DOMAIN mappings[e.can_id])

\* C23: for a decoded message, map_can_to_vss returns one sample for each
\* signal that has an entry under the message's identifier, in the order
\* of the signals, and no other; the handler catches nothing.  The value
\* is value*scale + offset when the entry has a conversion and the decoded
\* value otherwise; the built-in lightLevel of 80 gives
\* Vehicle.Body.Lights.AmbientLight 80.
C23_OneSamplePerMappedSignal ==
    \A k \in 1..Len(zonal.log) :
        LET e == zonal.log[k]
        IN e.found =>
            /\ e.mapped /\ ~e.caught
            /\ Len(e.vss) = Len(Mapped(e))
            /\ \A j \in 1..Len(e.vss) :
                  LET entry == mappings[e.can_id][Mapped(e)[j].name]
                  IN /\ e.vss[j].path = entry.vss_path
                     /\ e.vss[j].value =
                           IF entry.conversion.has
                           THEN Mapped(e)[j].value * entry.conversion.scale
                                    + entry.conversion.offset
                           ELSE Mapped(e)[j].value
            /\ (mappings = default_mappings
                  /\ \E j \in 1..Len(e.signals) : e.signals[j] = CANSignal("lightLevel", 80))
                 => \E j \in 1..Len(e.vss) :
                        e.vss[j] = VSS("Vehicle.Body.Lights.AmbientLight", 80)

\* C23 witness: a message of 0x100 under a table that has lightLevel only,
\* with a conversion: seven signals, one sample, 80*2 + 1.
C23_Witness ==
    \E k \in 1..Len(zonal.log) :
        /\ zonal.log[k].found
        /\ Len(zonal.log[k].signals) = 7
        /\ zonal.log[k].vss = <<VSS("Vehicle.Cabin.Light.Level", 161)>>

\* The document of the mapping resource, empty when it is absent or does
\* not load.
External ==
    IF zonal.mapping_config.state = "ok" THEN zonal.mapping_config.content
    ELSE NoMappings

\* The signal names a table has under an identifier.
NamesOf(m, id) == IF id \in DOMAIN m THEN DOMAIN m[id] ELSE {}

\* C24: after load_mappings, the entry in effect for each key (identifier,
\* signal name) is the external entry when the resource defines the key and
\* the built-in entry otherwise.
C24_ExternalOverridesPerKey ==
    zonal.pc = "running" =>
        \A id \in DOMAIN External \cup DOMAIN default_mappings :
            \A name \in NamesOf(External, id) \cup NamesOf(default_mappings, id) :
                /\ name \in NamesOf(mappings, id)
                /\ mappings[id][name] =
                      IF name \in NamesOf(External, id)
                      THEN External[id][name]
                      ELSE default_mappings[id][name]

\* C25: when the signal database cannot be loaded the manager holds the
\* built-in message 0x100, every message of 0x100 is decoded to its seven
\* signals, and a message whose identifier the database does not have is
\* not decoded, nothing is caught, and the controller goes on running.
C25_FallbackLayoutDecodes ==
    /\ (zonal.pc = "running" /\ zonal.dbc_path = "unavailable") =>
          /\ dbc.source = "virtual"
          /\ 256 \in dbc.ids
          /\ \A k \in 1..Len(zonal.log) :
                zonal.log[k].can_id = 256 =>
                    zonal.log[k].found /\ Len(zonal.log[k].signals) = 7
    /\ \A k \in 1..Len(zonal.log) :
          zonal.log[k].can_id \notin dbc.ids =>
              /\ ~zonal.log[k].found
              /\ ~zonal.log[k].caught
              /\ zonal.pc = "running"

\* C25 witness: with the built-in database a message of 0x101 is not
\* decoded and the message of 0x100 after it is.
C25_Witness ==
    /\ dbc.source = "virtual"
    /\ Len(zonal.log) = 2
    /\ zonal.log[1].can_id = 257 /\ ~zonal.log[1].found
    /\ zonal.log[2].can_id = 256 /\ zonal.log[2].found
    /\ zonal.log[2].signals[6] = CANSignal("lightLevel", 80)

\* C26: the warning that the database has no definition for an identifier
\* is logged at most once for each identifier.
C26_WarnedOncePerIdentifier ==
    \A i \in 1..Len(dbc.warnings) :
        \A j \in 1..Len(dbc.warnings) :
            dbc.warnings[i] = dbc.warnings[j] => i = j

\* C27: when the save of a decoded message or of its samples does not
\* commit, map_can_to_vss is still called for that message and returns what
\* it returns otherwise, the handler's except clause catches nothing, and
\* every later message that is decoded is mapped as well.
C27_PersistenceFailureDoesNotStop ==
    \A k \in 1..Len(zonal.log) :
        LET e == zonal.log[k]
        IN (e.found /\ (~e.saved_msg \/ ~e.saved_vss)) =>
              /\ e.mapped
              /\ e.vss = map_can_to_vss(mappings, DecodedMessage(e.can_id, e.signals))
              /\ ~e.caught
              /\ zonal.pc = "running"
              /\ \A j \in (k + 1)..Len(zonal.log) :
                    zonal.log[j].found => zonal.log[j].mapped

\* C27 witness: neither save of the first message commits, its seven
\* samples are made all the same, and the second message is decoded, mapped
\* and saved.
C27_Witness ==
    /\ Len(zonal.log) = 2
    /\ zonal.log[1].found /\ ~zonal.log[1].saved_msg /\ ~zonal.log[1].saved_vss
    /\ Len(zonal.log[1].vss) = 7
    /\ zonal.log[2].found /\ zonal.log[2].mapped
    /\ zonal.log[2].saved_msg /\ zonal.log[2].saved_vss
    /\ store.can_messages = 1

(* ------------------------------ after stop() -------------------------- *)
\* C30: once stop() has run, no handler takes another message out of the
\* messages it has split off: a handler that stands before a message stays
\* there, and so sends nothing to the CAN bus or to the publisher that
\* stop() has shut down.
C30_NoNewMessageAfterStop ==
    [][mainpc = "stopped" =>
          \A c \in Conns :
              pc[c] = "msgs" => (pc'[c] = "msgs" /\ pending'[c] = pending[c])]_vars

(* ------------------------------ the order of the rules ---------------- *)
\* The rules of validation on the envelope of the call, each on its own.
FieldsPresent ==
    arg.can_id.t # "absent" /\ arg.can_data.t # "absent" /\ arg.dlc.t # "absent"
IdInRange == arg.can_id.t = "int" /\ arg.can_id.n \in 0..2047
DlcInRange == arg.dlc.t = "int" /\ arg.dlc.n \in 0..8
EightBytes == arg.can_data.t \in {"str", "list"} /\ Len(arg.can_data.l) = 8

\* C31: a call of validate_message increments at most one failure counter:
\* invalid_ids only when the identifier rule is the first to fail,
\* invalid_data only when the payload rule is the first to fail (so not
\* when the identifier or the declared length fails before it), and none
\* when the envelope is accepted; can_id 0x800 with a payload of 7 counts
\* invalid_ids and leaves invalid_data.
C31_FirstFailureOnly ==
    ret # "none" =>
        /\ pstats.invalid_ids + pstats.invalid_data <= 1
        /\ pstats.invalid_ids = 1 =>
              ret = "False" /\ FieldsPresent /\ ~IdInRange
        /\ pstats.invalid_data = 1 =>
              ret = "False" /\ FieldsPresent /\ IdInRange /\ DlcInRange /\ ~EightBytes
        /\ ret = "True" => pstats.invalid_ids = 0 /\ pstats.invalid_data = 0
        /\ (FieldsPresent /\ arg.can_id = JInt(2048) /\ arg.can_data = JList(Payload7)) =>
              pstats.invalid_ids = 1 /\ pstats.invalid_data = 0

\* C31 witness: the call on can_id 0x800 with seven bytes has returned
\* False with invalid_ids 1 and invalid_data 0.
C31_Witness ==
    /\ ret = "False"
    /\ arg.can_id = JInt(2048)
    /\ arg.dlc = JInt(8)
    /\ arg.can_data = JList(Payload7)
    /\ pstats.invalid_ids = 1
    /\ pstats.invalid_data = 0

(* ------------------------------ the counters, concurrently ------------ *)
\* SpecRace: the server with a handler thread per connection, the increment
\* of messages_received in two steps.
NextRace ==
    \/ Start
    \/ Stop
    \/ \E c \in Conns : Accept(c)
    \/ \E c \in Conns : HandleClientStart(c)
    \/ \E c \in Conns : LoopTest(c)
    \/ \E c \in Conns : RecvTimeout(c)
    \/ \E c \in Conns : RecvEOF(c)
    \/ \E c \in Conns : RecvReset(c)
    \/ \E c \in Conns : RecvError(c)
    \/ \E c \in Conns : \E n \in LineEnds(wire[c]) : RecvData(c, n)
    \/ \E c \in Conns : LoadReceived(c)
    \/ \E c \in Conns : StoreReceived(c)
    \/ \E c \in Conns : ForwardEvict(c)
    \/ \E c \in Conns : ForwardReput(c)

SpecRace == Init /\ [][NextRace]_vars

\* No handler is inside process_incoming_message.
HandlersIdle ==
    \A c \in Conns : pc[c] \notin {"msgs", "evict", "reput"} /\ loaded[c] = -1

Parses(m) == json_loads(m).kind # "JSONDecodeError"

\* The messages the handlers of connections 1..c have taken up that parsed
\* as JSON, and those that were accepted.
RECURSIVE ParsedUpTo(_)
ParsedUpTo(c) ==
    IF c = 0 THEN 0
    ELSE Len(SelectSeq(Processed(c), Parses)) + ParsedUpTo(c - 1)
RECURSIVE AcceptedUpTo(_)
AcceptedUpTo(c) ==
    IF c = 0 THEN 0
    ELSE Len(SelectSeq(Processed(c), IsAccepted)) + AcceptedUpTo(c - 1)

\* C32: when no handler is inside process_incoming_message,
\* messages_received and the processor's total_received are the number of
\* messages that parsed as JSON and messages_forwarded is the number of
\* accepted envelopes, however the handler threads were interleaved.
C32_NoLostUpdate ==
    HandlersIdle =>
        /\ stats.messages_received = ParsedUpTo(NumConns)
        /\ pstats.total_received = ParsedUpTo(NumConns)
        /\ stats.messages_forwarded = AcceptedUpTo(NumConns)

(* ------------------------------ segmentation -------------------------- *)
\* C33: the messages a connection yields are those of the whole stream in
\* one read, however the stream is cut into reads: at each read, the
\* messages of the bytes read before followed by the messages this read
\* yields are the messages of all the bytes read so far, and the buffer
\* kept is their remainder.
C33_SegmentationIndependent ==
    [][ReadStep(1) =>
          LET before == process_buffer(decode(Consumed(1)))
              so_far == process_buffer(decode(Consumed(1) \o ReadBytes(1)))
          IN /\ before.messages \o pending'[1] = so_far.messages
             /\ buffer'[1] = so_far.remaining_buffer]_vars

Exhausted == ~connected /\ reconnect_attempts >= max_reconnect_attempts

\* C35: once the attempts are used up while disconnected, it stays so for
\* the rest of the run: no step opens a connection, whether the server is
\* reachable or not, and every call of send_data returns False without
\* writing.
C35_ExhaustionIsPermanent ==
    [][Exhausted =>
          /\ Exhausted'
          /\ connects' = connects
          /\ SendStep => (send_ret'.ret = "False" /\ send_ret'.write = "none")]_vars

\* C35 witness: two calls of send_data have failed since the last of the
\* five reconnections did, with no further connect.
C35_Witness ==
    /\ Exhausted
    /\ connects = max_reconnect_attempts + 1
    /\ bstats.messages_failed >= max_reconnect_attempts + 2
    /\ send_ret = [ret |-> "False", write |-> "none"]

(* ------------------------------ CAN bus, then publisher --------------- *)
\* SpecForward: one client sends MaxForwardMsgs lines, among them accepted
\* envelopes whose payload the CAN bus cannot take.
MaxForwardMsgs == 3
MsgBigByte == <<"{", "i", "d", "q", "}">>
ForwardMsgs == {MsgValid, MsgBigByte, MsgBadDlc}

InitForward ==
    InitServer(OnlyFirst(StreamsOf(ForwardMsgs, MaxForwardMsgs)), QueueCap)
        /\ NoCall /\ InitPeers

SpecForward == InitForward /\ [][NextSeq]_vars

\* A step of process_incoming_message on an accepted envelope, and the
\* frame process_message makes of it.
AcceptedStep(c) ==
    /\ pc[c] = "msgs"
    /\ IsAccepted(Head(pending[c]))
    /\ <<pc[c], pending[c]>> # <<pc'[c], pending'[c]>>
AcceptedFrame(c) == Enrich(json_loads(Head(pending[c])).obj, clock + 1)

\* The send to the CAN bus of this step failed: nothing went on the bus and
\* the error was counted.
CanSendFailed == can_sent' = can_sent /\ stats'.errors = stats.errors + 1

C37_StopRunsOnce == stops <= 1

(* ------------------------------ ZonalControllerCAN -------------------- *)
\* SpecCan: a ZonalControllerCAN on a bus that carries two kinds of frame:
\* the identifiers at the ends of each range of process_can_message, and a
\* remote frame, which has no data.
BusMessages ==
    {ReceivedMessage(256, <<42>>), ReceivedMessage(256, <<>>),
     ReceivedMessage(511, <<7>>), ReceivedMessage(512, <<7>>),
     ReceivedMessage(767, <<8>>), ReceivedMessage(768, <<9>>),
     ReceivedMessage(1023, <<10>>), ReceivedMessage(1024, <<11>>)}

Buses == {bus \in SUBSET BusMessages : Cardinality(bus) = 2}

InitCan ==
    /\ InitServer(OnlyFirst({<<>>}), QueueCap)
    /\ NoCall
    /\ InitBridge
    /\ NoCodec
    /\ launched = "zonal"
    /\ \E bus \in Buses : LoopsIdle(bus)
    /\ NoRace
    /\ NoZonal

NextCan ==
    \/ ZcStart
    \/ ZcStop
    \/ RxLoopTest
    \/ RxRecv
    \/ ZpLoopTest
    \/ ZpDrain
    \/ ZpCycle

\* Each started thread that can take a step takes one; a frame on the bus
\* and the call of stop() are not promised.
FairCan == WF_vars(RxSteps) /\ WF_vars(ZpSteps)

SpecCan == InitCan /\ [][NextCan]_vars /\ FairCan

\* C38: while the controller is running, a message on the transmit queue is
\* eventually taken from it (and sent on the bus): the queue is empty again,
\* or its oldest message is no longer the one it was.
C38_TransmitQueueDrains ==
    \A m \in {[id |-> 1280 + zone_id, data |-> hex(<<zone_id, 1, 0>>)]} \cup
              {[id |-> 1024 + (b.id % 256), data |-> b.data] : b \in BusMessages} :
        (zc_running /\ can_tx_queue # <<>> /\ Head(can_tx_queue) = m)
            ~> (~zc_running \/ can_tx_queue = <<>> \/ Head(can_tx_queue) # m)

(* ------------------------------ routing by identifier ----------------- *)
\* A step of can_receiver_thread after recv, and a step of zone_processor
\* that takes a message from can_rx_queue.
ReceiverStep == rx_pc = "recv" /\ rx_pc' = "test"
ProcessorTakes == zp_pc = "work" /\ Len(can_rx_queue') < Len(can_rx_queue)

\* The dictionary d after d[key] = value, and nothing else.
OnlyKeySet(d, after, key, value) ==
    /\ DOMAIN after = DOMAIN d \cup {key}
    /\ after[key] = value
    /\ \A i \in DOMAIN d \ {key} : after[i] = d[i]

\* C39: the receiver puts what it reads at the tail of can_rx_queue and the
\* processor takes the head, so messages are processed in the order they
\* were read; and the message taken is routed by its identifier: 0x100
\* changes system_status only (to the first byte of the data), 0x200..0x2FF
\* sets sensors[id & 0xFF] only, 0x300..0x3FF sets actuators[id & 0xFF] only
\* and puts one feedback message 0x400 + (id & 0xFF) with the command data
\* on can_tx_queue, and any other identifier changes neither zone_data nor
\* can_tx_queue.  (A put on a queue at the bound of the model is left out.)
C39_RoutedByIdentifier ==
    [][/\ ReceiverStep =>
            \/ can_rx_queue' = can_rx_queue
            \/ /\ Len(can_rx_queue') = Len(can_rx_queue) + 1
               /\ SubSeq(can_rx_queue', 1, Len(can_rx_queue)) = can_rx_queue
       /\ ProcessorTakes =>
            LET msg == Head(can_rx_queue)
                low == msg.id % 256
            IN /\ can_rx_queue' = Tail(can_rx_queue)
               /\ msg.id = 256 =>
                     /\ zone_data'.sensors = zone_data.sensors
                     /\ zone_data'.actuators = zone_data.actuators
                     /\ can_tx_queue' = can_tx_queue
                     /\ msg.dlc > 0 =>
                           zone_data'.system_status = 16 * msg.data[1] + msg.data[2]
               /\ msg.id \in 512..767 =>
                     /\ OnlyKeySet(zone_data.sensors, zone_data'.sensors, low, msg.data)
                     /\ zone_data'.actuators = zone_data.actuators
                     /\ zone_data'.system_status = zone_data.system_status
                     /\ can_tx_queue' = can_tx_queue
               /\ msg.id \in 768..1023 =>
                     /\ OnlyKeySet(zone_data.actuators, zone_data'.actuators, low, msg.data)
                     /\ zone_data'.sensors = zone_data.sensors
                     /\ zone_data'.system_status = zone_data.system_status
                     /\ Len(can_tx_queue) < MaxCanTx =>
                           can_tx_queue' = Append(can_tx_queue,
                                                  [id |-> 1024 + low, data |-> msg.data])
               /\ msg.id \notin {256} \cup (512..1023) =>
                     /\ zone_data' = zone_data
                     /\ can_tx_queue' = can_tx_queue]_vars

\* C39 witness: a sensor frame and an actuator frame have been processed,
\* and the feedback of the actuator frame is the only message on
\* can_tx_queue.
C39_Witness ==
    /\ DOMAIN zone_data.sensors = {255}
    /\ DOMAIN zone_data.actuators = {255}
    /\ zone_data.actuators[255] = hex(<<10>>)
    /\ zone_data.system_status = -1
    /\ can_tx_queue = <<[id |-> 1279, data |-> hex(<<10>>)]>>
    /\ can_rx_queue = <<>>

====
